---- MODULE Spec2Model ----
(***************************************************************************)
(* A model of the Encointer ceremonies pallet (src/src/lib.rs).            *)
(*                                                                         *)
(* The pallet's storage is the record `store`, one field per storage item  *)
(* of decl_storage!, each map holding exactly the keys that were inserted  *)
(* (a missing key reads as the item's default, as in Substrate).  Every    *)
(* dispatchable and every hook is an operator from the storage before the  *)
(* call to the dispatch result and the storage after it; the actions apply *)
(* these operators to the state.                                           *)
(***************************************************************************)
EXTENDS Integers, Sequences, FiniteSets, TLC

\* ------------------------------------------------------------------ bounds

\* accounts that send extrinsics in the life-cycle specifications
NumAccounts == 3
\* the phase authority stops advancing at this ceremony index
MaxCeremonyIndex == 2
\* grant_reputation calls per behaviour of the life-cycle specification
MaxGrants == 2
\* largest registries handed to assign_meetups in SpecAssign
MaxReputables == 40
MaxNewbies == 12
\* largest meetup whose ballot is taken in SpecBallot
MaxMeetupSize == 6

\* ------------------------------------------------- environment (other pallets)

Accounts == 1 .. NumAccounts

\* T::AccountId::default(), what a missing ParticipantRegistry entry reads as
DefaultAccount == 0

\* encointer_scheduler::ceremony_master()
CeremonyMaster == 1

\* encointer_currencies::currency_identifiers(), in iteration order
currency_identifiers == << "cidA" >>

\* a currency identifier that is not registered
UnknownCid == "cidX"

AllCids == { currency_identifiers[i] : i \in DOMAIN currency_identifiers } \cup { UnknownCid }

IsKnownCid(cid) == \E i \in DOMAIN currency_identifiers : currency_identifiers[i] = cid

\* encointer_currencies::bootstrappers(cid)
bootstrappers(cid) == IF cid = "cidA" THEN { 1, 2 } ELSE {}

\* encointer_currencies::locations(cid): positions on a line, in metres
locations(cid) == IF cid = "cidA" THEN << [lat |-> 0, lon |-> 10], [lat |-> 0, lon |-> -20] >> ELSE << >>

\* configuration of the pallet and of the runtime
LocationTolerance == 1
TimeTolerance == 1
MomentsPerDay == 360
\* next_phase_timestamp() - phase_durations(ATTESTING) while ATTESTING
AttestingStart == 1000
\* largest latitude / longitude is_valid_geolocation accepts
MaxLat == 90
MaxLon == 180

REPUTATION_LIFETIME == 1

Min(a, b) == IF a < b THEN a ELSE b
Abs(x) == IF x < 0 THEN 0 - x ELSE x

None == << >>
Some(x) == << x >>

Contains(seq, x) == \E i \in DOMAIN seq : seq[i] = x

\* ------------------------------------------------------------ storage maps

EmptyMap == [k \in {} |-> 0]

Get(map, key, default) == IF key \in DOMAIN map THEN map[key] ELSE default

Insert(map, key, val) ==
    [k \in (DOMAIN map) \cup {key} |-> IF k = key THEN val ELSE map[k]]

\* remove_prefix of a double map: every key whose first key is cc
RemovePrefix(map, cc) ==
    [k \in {x \in DOMAIN map : x[1] # cc} |-> map[k]]

EmptyStore ==
    [ ParticipantRegistry |-> EmptyMap,
      ParticipantIndex |-> EmptyMap,
      ParticipantCount |-> EmptyMap,
      ParticipantReputation |-> EmptyMap,
      MeetupRegistry |-> EmptyMap,
      MeetupIndex |-> EmptyMap,
      MeetupCount |-> EmptyMap,
      AttestationRegistry |-> EmptyMap,
      AttestationIndex |-> EmptyMap,
      AttestationCount |-> EmptyMap,
      MeetupParticipantCountVote |-> EmptyMap ]

participant_registry(st, cc, p) == Get(st.ParticipantRegistry, <<cc, p>>, DefaultAccount)
participant_index(st, cc, a) == Get(st.ParticipantIndex, <<cc, a>>, 0)
participant_count(st, cc) == Get(st.ParticipantCount, cc, 0)
participant_reputation(st, cc, a) == Get(st.ParticipantReputation, <<cc, a>>, "Unverified")
meetup_registry(st, cc, m) == Get(st.MeetupRegistry, <<cc, m>>, << >>)
meetup_index(st, cc, a) == Get(st.MeetupIndex, <<cc, a>>, 0)
meetup_count(st, cc) == Get(st.MeetupCount, cc, 0)
attestation_registry(st, cc, i) == Get(st.AttestationRegistry, <<cc, i>>, << >>)
attestation_index(st, cc, a) == Get(st.AttestationIndex, <<cc, a>>, 0)
attestation_count(st, cc) == Get(st.AttestationCount, cc, 0)
meetup_participant_count_vote(st, cc, a) == Get(st.MeetupParticipantCountVote, <<cc, a>>, 0)

\* a DispatchResult together with the storage the call leaves
Ok(st) == [res |-> "Ok", store |-> st]
Err(st, e) == [res |-> e, store |-> st]

\* ------------------------------------------------------------- signatures

\* A signature is the pair it was made from: it verifies against a message
\* and a public key exactly when it was made by that key over that message.
Sign(signer, msg) == [signer |-> signer, msg |-> msg]
Verify(sig, msg, public) == sig.signer = public /\ sig.msg = msg

\* ------------------------------------------------------- grant_reputation

\* the reputation written by grant_reputation
granted_reputation == "VerifiedUnlinked"

\* grant_reputation as it would be if it wrote the entry of the current
\* ceremony instead of the previous one
grant_reputation_for_current_ceremony(st, cindex, sender, cid, reputable) ==
    IF sender # CeremonyMaster
    THEN Err(st, "only the CeremonyMaster can call this function")
    ELSE Ok([st EXCEPT !.ParticipantReputation =
                Insert(@, << <<cid, cindex>>, reputable >>, granted_reputation)])

grant_reputation(st, cindex, sender, cid, reputable) ==
    IF sender # CeremonyMaster
    THEN Err(st, "only the CeremonyMaster can call this function")
    ELSE Ok([st EXCEPT !.ParticipantReputation =
                Insert(@, << <<cid, cindex - 1>>, reputable >>, granted_reputation)])

\* ---------------------------------------------------- register_participant

\* attendee_signature.verify((prover_public, ceremony_index).encode(), attendee_public)
verify_attendee_signature(proof) ==
    Verify(proof.attendee_signature,
           <<proof.prover_public, proof.ceremony_index>>,
           proof.attendee_public)

\* is_registered as it would be if it looked at the ceremony before
is_registered_in_previous_ceremony(st, cc, sender) ==
    << <<cc[1], cc[2] - 1>>, sender >> \in DOMAIN st.ParticipantIndex

\* ParticipantIndex::contains_key((cid, cindex), sender)
is_registered(st, cc, sender) == <<cc, sender>> \in DOMAIN st.ParticipantIndex

\* proof_error as it would be without the check of the attendee's signature
proof_error_without_signature(st, cindex, sender, p) ==
    IF sender # p.prover_public
    THEN "supplied proof is not proving sender"
    ELSE IF ~ (p.ceremony_index < cindex)
    THEN "proof is acausal"
    ELSE IF ~ (p.ceremony_index >= cindex - REPUTATION_LIFETIME)
    THEN "proof is outdated"
    ELSE IF participant_reputation(st, <<p.currency_identifier, p.ceremony_index>>,
                                   p.attendee_public) # "VerifiedUnlinked"
    THEN "former attendance has not been verified or has already been linked to other account"
    ELSE ""

\* the first ensure! of the proof branch that fails, "" when all hold
proof_error(st, cindex, sender, p) ==
    IF sender # p.prover_public
    THEN "supplied proof is not proving sender"
    ELSE IF ~ (p.ceremony_index < cindex)
    THEN "proof is acausal"
    ELSE IF ~ (p.ceremony_index >= cindex - REPUTATION_LIFETIME)
    THEN "proof is outdated"
    ELSE IF participant_reputation(st, <<p.currency_identifier, p.ceremony_index>>,
                                   p.attendee_public) # "VerifiedUnlinked"
    THEN "former attendance has not been verified or has already been linked to other account"
    ELSE IF ~ verify_attendee_signature(p)
    THEN "BadProofOfAttendanceSignature"
    ELSE ""

\* link_reputation as it would be without the write that burns the credential
link_reputation_without_burn(st, cc, sender, p) ==
    [st EXCEPT !.ParticipantReputation = Insert(@, <<cc, sender>>, "UnverifiedReputable")]

\* the two reputation writes of a registration with an accepted proof
link_reputation(st, cc, sender, p) ==
    [st EXCEPT !.ParticipantReputation =
        Insert(Insert(@, << <<p.currency_identifier, p.ceremony_index>>, p.attendee_public >>,
                      "VerifiedLinked"),
               <<cc, sender>>, "UnverifiedReputable")]

\* the three registry writes that end every successful registration
\* insert_participant as it would be if it wrote to the ceremony before the
\* current one
insert_participant_in_previous_ceremony(st, cc, sender, new_count) ==
    [st EXCEPT !.ParticipantRegistry = Insert(@, << <<cc[1], cc[2] - 1>>, new_count >>, sender),
               !.ParticipantIndex = Insert(@, << <<cc[1], cc[2] - 1>>, sender >>, new_count),
               !.ParticipantCount = Insert(@, <<cc[1], cc[2] - 1>>, new_count)]

insert_participant(st, cc, sender, new_count) ==
    [st EXCEPT !.ParticipantRegistry = Insert(@, <<cc, new_count>>, sender),
               !.ParticipantIndex = Insert(@, <<cc, sender>>, new_count),
               !.ParticipantCount = Insert(@, cc, new_count)]

\* proof is None (<< >>) or Some(p) (<< p >>).  count.checked_add(1) cannot
\* overflow a u64 within the bounds of the model.
register_participant(st, phase, cindex, sender, cid, proof) ==
    LET cc == <<cid, cindex>>
        new_count == participant_count(st, cc) + 1
    IN  IF phase # "REGISTERING"
        THEN Err(st, "registering participants can only be done during REGISTERING phase")
        ELSE IF ~ IsKnownCid(cid)
        THEN Err(st, "CurrencyIdentifier not found")
        ELSE IF is_registered(st, cc, sender)
        THEN Err(st, "ParticipantAlreadyRegistered")
        ELSE IF proof = None
        THEN Ok(insert_participant(st, cc, sender, new_count))
        ELSE IF proof_error(st, cindex, sender, proof[1]) # ""
        THEN Err(st, proof_error(st, cindex, sender, proof[1]))
        ELSE Ok(insert_participant(link_reputation(st, cc, sender, proof[1]),
                                   cc, sender, new_count))

\* --------------------------------------------------- register_attestations

\* encointer_currencies::is_valid_geolocation
is_valid_geolocation(loc) == Abs(loc.lat) <= MaxLat /\ Abs(loc.lon) <= MaxLon

\* encointer_currencies::haversine_distance, on the model's grid of positions
haversine_distance(a, b) == Abs(a.lat - b.lat) + Abs(a.lon - b.lon)

\* what a call that panics evaluates to
Panic == << "panic" >>

\* For meetup_idx = 0 the index (meetup_idx - 1) underflows and the access
\* panics; register_attestations never calls it so (index 0 has no roster).
get_meetup_location(cid, meetup_idx) ==
    IF meetup_idx = 0 THEN Panic
    ELSE IF meetup_idx <= Len(locations(cid))
    THEN Some(locations(cid)[meetup_idx])       \* index (meetup_idx - 1) of the Vec
    ELSE None

get_meetup_time(phase, cid, meetup_idx) ==
    IF phase # "ATTESTING" THEN None
    ELSE IF get_meetup_location(cid, meetup_idx) = None THEN None
    ELSE LET mlocation == get_meetup_location(cid, meetup_idx)[1]
             day == MomentsPerDay
             perdegree == day \div 360
             start == AttestingStart
             abs_lon_time == Abs(mlocation.lon) * perdegree
         IN  IF mlocation.lon < 0
             THEN Some(start + day + abs_lon_time)
             ELSE Some(start + day - abs_lon_time)

\* verify_attestation_signature as it would be without the self-signature check
verify_attestation_signature_allowing_self(attestation) ==
    Verify(attestation.signature, attestation.claim, attestation.public)

\* the self-signature check and the signature check over the encoded claim
verify_attestation_signature(attestation) ==
    /\ attestation.public # attestation.claim.claimant_public
    /\ Verify(attestation.signature, attestation.claim, attestation.public)

\* mtime.checked_sub(timestamp), else timestamp.checked_sub(mtime), on unsigned moments
\* within_time_tolerance as it would be if only claims made too early were
\* turned down
within_time_tolerance_earlier_only(mtime, timestamp) ==
    IF mtime >= timestamp
    THEN ~ (mtime - timestamp > TimeTolerance)
    ELSE TRUE

within_time_tolerance(mtime, timestamp) ==
    IF mtime >= timestamp
    THEN ~ (mtime - timestamp > TimeTolerance)
    ELSE ~ (timestamp - mtime > TimeTolerance)

\* the attestation's signer is one of the other members of the caller's meetup
is_meetup_peer(meetup_participants, attestation) ==
    Contains(meetup_participants, attestation.public)

\* an attestation the loop does not `continue` on
attestation_is_legit(attestation, meetup_participants, cindex, cid, meetup_idx, mlocation, mtime) ==
    /\ is_meetup_peer(meetup_participants, attestation)
    /\ attestation.claim.ceremony_index = cindex
    /\ attestation.claim.currency_identifier = cid
    /\ attestation.claim.meetup_index = meetup_idx
    /\ is_valid_geolocation(attestation.claim.location)
    /\ ~ (haversine_distance(mlocation, attestation.claim.location) > LocationTolerance)
    /\ within_time_tolerance(mtime, attestation.claim.timestamp)
    /\ verify_attestation_signature(attestation)

\* the loop over the attestations from position w on: acc holds
\* verified_attestation_accounts and claim_n_participants
RECURSIVE verify_attestations(_, _, _, _, _, _, _, _, _)
verify_attestations(attestations, w, acc, meetup_participants, cindex, cid, meetup_idx, mlocation, mtime) ==
    IF w > Len(attestations) THEN acc
    ELSE verify_attestations(attestations, w + 1,
            IF attestation_is_legit(attestations[w], meetup_participants, cindex, cid,
                                    meetup_idx, mlocation, mtime)
            THEN [verified_attestation_accounts |->
                      << attestations[w].public >> \o acc.verified_attestation_accounts,
                  claim_n_participants |->
                      attestations[w].claim.number_of_participants_confirmed]
            ELSE acc,
            meetup_participants, cindex, cid, meetup_idx, mlocation, mtime)

\* meetup_participants.retain(|x| x != &sender)
retain_others(meetup_participants, sender) ==
    SelectSeq(meetup_participants, LAMBDA x : x # sender)

\* too_many_attestations as it would be if it counted the caller among the roster
too_many_attestations_counting_caller(num_signed, num_registered) ==
    ~ (num_signed <= num_registered + 1)

\* ensure!(num_signed <= num_registered)
too_many_attestations(num_signed, num_registered) == ~ (num_signed <= num_registered)

\* store_attestations as it would be if every submission took a new index
store_attestations_always_new_index(st, cc, sender, verified_attestation_accounts, claim_n_participants) ==
    LET count == attestation_count(st, cc)
        idx == count + 1
    IN  [st EXCEPT
            !.AttestationCount = Insert(@, cc, count + 1),
            !.AttestationRegistry = Insert(@, <<cc, idx>>, verified_attestation_accounts),
            !.AttestationIndex = Insert(@, <<cc, sender>>, idx),
            !.MeetupParticipantCountVote = Insert(@, <<cc, sender>>, claim_n_participants)]

\* the writes that end a successful call
store_attestations(st, cc, sender, verified_attestation_accounts, claim_n_participants) ==
    LET count == attestation_count(st, cc)
        known == <<cc, sender>> \in DOMAIN st.AttestationIndex
        idx == IF known THEN attestation_index(st, cc, sender) ELSE count + 1
    IN  [st EXCEPT
            !.AttestationCount = IF known THEN @ ELSE Insert(@, cc, count + 1),
            !.AttestationRegistry = Insert(@, <<cc, idx>>, verified_attestation_accounts),
            !.AttestationIndex = Insert(@, <<cc, sender>>, idx),
            !.MeetupParticipantCountVote = Insert(@, <<cc, sender>>, claim_n_participants)]

\* register_attestations as it would be if the headcount vote were written
\* before the attestations are filtered
register_attestations_voting_before_filter(st, phase, cindex, sender, attestations) ==
    IF phase # "ATTESTING"
    THEN Err(st, "registering attestations can only be done during ATTESTING phase")
    ELSE IF ~ (Len(attestations) > 0)
    THEN Err(st, "empty attestations supplied")
    ELSE
    LET cid == attestations[1].claim.currency_identifier
        cc == <<cid, cindex>>
        meetup_idx == meetup_index(st, cc, sender)
        roster == meetup_registry(st, cc, meetup_idx)
        meetup_participants == retain_others(roster, sender)
        num_registered == Len(meetup_participants)
        num_signed == Len(attestations)
        mlocation == get_meetup_location(cid, meetup_idx)
        mtime == get_meetup_time(phase, cid, meetup_idx)
        verified == verify_attestations(attestations, 1,
                        [verified_attestation_accounts |-> << >>, claim_n_participants |-> 0],
                        meetup_participants, cindex, cid, meetup_idx, mlocation[1], mtime[1])
    IN  IF ~ IsKnownCid(cid)
        THEN Err(st, "CurrencyIdentifier not found")
        ELSE IF ~ Contains(roster, sender)
        THEN Err(st, "origin not part of this meetup")
        ELSE IF too_many_attestations(num_signed, num_registered)
        THEN Err(st, "can't have more attestations than other meetup participants")
        ELSE IF mlocation = None
        THEN Err(st, "MeetupLocationNotFound")
        ELSE IF mtime = None
        THEN Err(st, "MeetupTimeCalculationError")
        ELSE IF Len(verified.verified_attestation_accounts) = 0
        THEN Err([st EXCEPT !.MeetupParticipantCountVote =
                      Insert(@, <<cc, sender>>, attestations[1].claim.number_of_participants_confirmed)],
                 "NoValidAttestations")
        ELSE Ok(store_attestations(st, cc, sender, verified.verified_attestation_accounts,
                                   verified.claim_n_participants))

register_attestations(st, phase, cindex, sender, attestations) ==
    IF phase # "ATTESTING"
    THEN Err(st, "registering attestations can only be done during ATTESTING phase")
    ELSE IF ~ (Len(attestations) > 0)
    THEN Err(st, "empty attestations supplied")
    ELSE
    LET cid == attestations[1].claim.currency_identifier
        cc == <<cid, cindex>>
        meetup_idx == meetup_index(st, cc, sender)
        roster == meetup_registry(st, cc, meetup_idx)
        meetup_participants == retain_others(roster, sender)
        num_registered == Len(meetup_participants)
        num_signed == Len(attestations)
        mlocation == get_meetup_location(cid, meetup_idx)
        mtime == get_meetup_time(phase, cid, meetup_idx)
        verified == verify_attestations(attestations, 1,
                        [verified_attestation_accounts |-> << >>, claim_n_participants |-> 0],
                        meetup_participants, cindex, cid, meetup_idx, mlocation[1], mtime[1])
    IN  IF ~ IsKnownCid(cid)
        THEN Err(st, "CurrencyIdentifier not found")
        ELSE IF ~ Contains(roster, sender)
        THEN Err(st, "origin not part of this meetup")
        ELSE IF too_many_attestations(num_signed, num_registered)
        THEN Err(st, "can't have more attestations than other meetup participants")
        ELSE IF mlocation = None
        THEN Err(st, "MeetupLocationNotFound")
        ELSE IF mtime = None
        THEN Err(st, "MeetupTimeCalculationError")
        ELSE IF Len(verified.verified_attestation_accounts) = 0
        THEN Err(st, "NoValidAttestations")
        ELSE Ok(store_attestations(st, cc, sender, verified.verified_attestation_accounts,
                                   verified.claim_n_participants))

\* ----------------------------------------------------------- assign_meetups

\* the test that makes a participant a reputable
is_reputable(st, cc, cid, participant) ==
    \/ participant_reputation(st, cc, participant) = "UnverifiedReputable"
    \/ participant \in bootstrappers(cid)

\* n_meetups for the two partitions
\* number_of_meetups as it would be if the newbies did not count
number_of_meetups_of_reputables_only(reputables, newbies) == Len(reputables) \div 12 + 1

number_of_meetups(reputables, newbies) ==
    LET n == Len(reputables) + Min(Len(newbies), Len(reputables) \div 4)
    IN  n \div 12 + 1

\* the reputables pushed to meetups[j - 1]: those at positions i with i % n_meetups = j - 1
round_robin(reputables, n_meetups, j) ==
    LET k == Cardinality({ i \in 0 .. Len(reputables) - 1 : i % n_meetups = j - 1 })
    IN  [x \in 1 .. k |-> reputables[(x - 1) * n_meetups + j]]

\* the newbie limit of a meetup
has_room_for_newbie(meetup, n_rep) == Len(meetup) < (n_rep * 4) \div 3

\* the loop over the newbies from (0-based) position i on
RECURSIVE distribute_newbies(_, _, _, _)
distribute_newbies(meetups, meetup_n_rep, newbies, i) ==
    IF i >= Len(newbies) THEN meetups
    ELSE LET idx == (i % Len(meetups)) + 1
         IN  distribute_newbies(
                 IF has_room_for_newbie(meetups[idx], meetup_n_rep[idx])
                 THEN [meetups EXCEPT ![idx] = Append(@, newbies[i + 1])]
                 ELSE meetups,
                 meetup_n_rep, newbies, i + 1)

\* is_too_small as it would be with a minimum of two members
is_too_small_below_two(meetup) == Len(meetup) < 2

is_too_small(meetup) == Len(meetup) < 3

\* Vec::remove(i) for a 0-based i < len
RemoveAt(seq, i) == SubSeq(seq, 1, i) \o SubSeq(seq, i + 2, Len(seq))

\* `for i in toosmall { meetups.remove(i); }` from position k of toosmall on:
\* the positions are those of the vector before any removal, and Vec::remove
\* panics on a position past the end
RECURSIVE remove_toosmall(_, _, _)
remove_toosmall(meetups, toosmall, k) ==
    IF k > Len(toosmall) THEN [panic |-> FALSE, meetups |-> meetups]
    ELSE IF toosmall[k] >= Len(meetups) THEN [panic |-> TRUE, meetups |-> meetups]
    ELSE remove_toosmall(RemoveAt(meetups, toosmall[k]), toosmall, k + 1)

\* the meetups of one community as they stand before the commit
plan_meetups(st, cindex, cid) ==
    LET cc == <<cid, cindex>>
        pcount == participant_count(st, cc)
        participants == [p \in 1 .. pcount |-> participant_registry(st, cc, p)]
        reputables == SelectSeq(participants, LAMBDA a : is_reputable(st, cc, cid, a))
        newbies == SelectSeq(participants, LAMBDA a : ~ is_reputable(st, cc, cid, a))
        n_meetups == number_of_meetups(reputables, newbies)
        with_reputables == [j \in 1 .. n_meetups |-> round_robin(reputables, n_meetups, j)]
        meetup_n_rep == [j \in 1 .. n_meetups |-> Len(with_reputables[j])]
        with_newbies == distribute_newbies(with_reputables, meetup_n_rep, newbies, 0)
        toosmall == SelectSeq([i \in 1 .. n_meetups |-> i - 1],
                              LAMBDA i : is_too_small(with_newbies[i + 1]))
        purged == remove_toosmall(with_newbies, toosmall, 1)
    IN  [n_meetups |-> n_meetups, panic |-> purged.panic, meetups |-> purged.meetups,
         reputables |-> reputables, newbies |-> newbies]

\* index_members as it would be if the last member of a meetup were left out
index_members_but_last(map, cc, meetup, idx) ==
    [k \in (DOMAIN map) \cup { <<cc, meetup[x]>> : x \in 1 .. (Len(meetup) - 1) } |->
        IF \E x \in 1 .. (Len(meetup) - 1) : k = <<cc, meetup[x]>> THEN idx ELSE map[k]]

\* MeetupIndex::insert for the members of one meetup
index_members(map, cc, meetup, idx) ==
    [k \in (DOMAIN map) \cup { <<cc, meetup[x]>> : x \in DOMAIN meetup } |->
        IF \E x \in DOMAIN meetup : k = <<cc, meetup[x]>> THEN idx ELSE map[k]]

\* commit_meetups as it would be if the meetups were stored at their 0-based
\* positions
RECURSIVE commit_meetups_at_positions(_, _, _, _)
commit_meetups_at_positions(st, cc, meetups, i) ==
    IF i >= Len(meetups) THEN st
    ELSE commit_meetups_at_positions(
            [st EXCEPT !.MeetupIndex = index_members(@, cc, meetups[i + 1], i),
                       !.MeetupRegistry = Insert(@, <<cc, i>>, meetups[i + 1])],
            cc, meetups, i + 1)

\* the commit loop from (0-based) position i on
RECURSIVE commit_meetups(_, _, _, _)
commit_meetups(st, cc, meetups, i) ==
    IF i >= Len(meetups) THEN st
    ELSE commit_meetups(
            [st EXCEPT !.MeetupIndex = index_members(@, cc, meetups[i + 1], i + 1),
                       !.MeetupRegistry = Insert(@, <<cc, i + 1>>, meetups[i + 1])],
            cc, meetups, i + 1)

\* the count written to MeetupCount
committed_meetup_count(plan) == plan.n_meetups

assign_meetups_of(st, cindex, cid) ==
    LET plan == plan_meetups(st, cindex, cid)
        cc == <<cid, cindex>>
    IN  IF plan.panic THEN [panic |-> TRUE, store |-> st]
        ELSE IF plan.meetups = << >> THEN [panic |-> FALSE, store |-> st]
        ELSE [panic |-> FALSE,
              store |-> commit_meetups(
                            [st EXCEPT !.MeetupCount =
                                Insert(@, cc, committed_meetup_count(plan))],
                            cc, plan.meetups, 0)]

\* the loop over the communities from position c on
RECURSIVE assign_meetups_from(_, _, _)
assign_meetups_from(st, cindex, c) ==
    IF c > Len(currency_identifiers) THEN [panic |-> FALSE, store |-> st]
    ELSE LET one == assign_meetups_of(st, cindex, currency_identifiers[c])
         IN  IF one.panic THEN one
             ELSE assign_meetups_from(one.store, cindex, c + 1)

assign_meetups(st, cindex) == assign_meetups_from(st, cindex, 1)

\* ---------------------------------------------------- ballot_meetup_n_votes

\* n_vote_candidates.iter().position(|&(n, _c)| n == this_vote), 1-based, 0 for None
position_of_vote(n_vote_candidates, this_vote) ==
    IF \E i \in DOMAIN n_vote_candidates : n_vote_candidates[i][1] = this_vote
    THEN CHOOSE i \in DOMAIN n_vote_candidates :
            /\ n_vote_candidates[i][1] = this_vote
            /\ \A j \in 1 .. i - 1 : n_vote_candidates[j][1] # this_vote
    ELSE 0

\* tally_votes as it would be if a new candidate were pushed to the back
RECURSIVE tally_votes_appending(_, _, _, _, _)
tally_votes_appending(st, cc, meetup_participants, i, n_vote_candidates) ==
    IF i > Len(meetup_participants) THEN n_vote_candidates
    ELSE LET this_vote == meetup_participant_count_vote(st, cc, meetup_participants[i])
             idx == position_of_vote(n_vote_candidates, this_vote)
         IN  tally_votes_appending(st, cc, meetup_participants, i + 1,
                 IF ~ (this_vote > 0) THEN n_vote_candidates
                 ELSE IF idx # 0
                 THEN [n_vote_candidates EXCEPT ![idx] = <<@[1], @[2] + 1>>]
                 ELSE Append(n_vote_candidates, <<this_vote, 1>>))

\* the tally loop over the meetup's participants from position i on; a
\* candidate is <<n, count of votes for n>>, a new one is inserted in front
RECURSIVE tally_votes(_, _, _, _, _)
tally_votes(st, cc, meetup_participants, i, n_vote_candidates) ==
    IF i > Len(meetup_participants) THEN n_vote_candidates
    ELSE LET this_vote == meetup_participant_count_vote(st, cc, meetup_participants[i])
             idx == position_of_vote(n_vote_candidates, this_vote)
         IN  tally_votes(st, cc, meetup_participants, i + 1,
                 IF ~ (this_vote > 0) THEN n_vote_candidates
                 ELSE IF idx # 0
                 THEN [n_vote_candidates EXCEPT ![idx] = <<@[1], @[2] + 1>>]
                 ELSE << <<this_vote, 1>> >> \o n_vote_candidates)

\* sort_by(|a, b| b.1.cmp(&a.1)): a stable sort by descending vote count
RECURSIVE sort_by_descending_count(_)
sort_by_descending_count(candidates) ==
    IF candidates = << >> THEN << >>
    ELSE LET first == CHOOSE i \in DOMAIN candidates :
                        /\ \A j \in DOMAIN candidates : candidates[j][2] <= candidates[i][2]
                        /\ \A j \in 1 .. i - 1 : candidates[j][2] < candidates[i][2]
         IN  << candidates[first] >> \o sort_by_descending_count(RemoveAt(candidates, first - 1))

\* has_quorum as it would be with a quorum of two votes
has_quorum_of_two(candidate) == ~ (candidate[2] < 2)

\* the quorum of the winning candidate
has_quorum(candidate) == ~ (candidate[2] < 3)

\* None, or Some(<<n, count of votes for n>>)
ballot_meetup_n_votes(st, cid, cindex, meetup_idx) ==
    LET cc == <<cid, cindex>>
        n_vote_candidates == tally_votes(st, cc, meetup_registry(st, cc, meetup_idx), 1, << >>)
        sorted == sort_by_descending_count(n_vote_candidates)
    IN  IF n_vote_candidates = << >> THEN None
        ELSE IF ~ has_quorum(sorted[1]) THEN None
        ELSE Some(sorted[1])

\* ------------------------------------------------------------ issue_rewards

\* the attestation bundle of an account, << >> when it has none
bundle_of(st, cc, account) == attestation_registry(st, cc, attestation_index(st, cc, account))

\* has_attested: the witnesses of p, each occurrence counted, that list p back
has_attested(st, cc, p) ==
    Cardinality({ w \in DOMAIN bundle_of(st, cc, p) :
                    Contains(bundle_of(st, cc, bundle_of(st, cc, p)[w]), p) })

\* required_attestations as it would be if it left out one more participant
required_attestations_less_one(n_confirmed, n_honest_participants) == n_honest_participants - 2

\* the number of attestations and of reciprocating witnesses a member needs
required_attestations(n_confirmed, n_honest_participants) == n_honest_participants - 1

\* merits_reward as it would be without the test of the member's own vote
merits_reward_with_any_vote(st, cc, p, n_confirmed, n_honest_participants) ==
    /\ ~ (\/ Len(bundle_of(st, cc, p)) < required_attestations(n_confirmed, n_honest_participants)
          \/ bundle_of(st, cc, p) = << >>)
    /\ ~ (has_attested(st, cc, p) < required_attestations(n_confirmed, n_honest_participants))

\* the three tests a member of a meetup with a dependable ballot has to pass
merits_reward(st, cc, p, n_confirmed, n_honest_participants) ==
    /\ ~ (meetup_participant_count_vote(st, cc, p) # n_confirmed)
    /\ ~ (\/ Len(bundle_of(st, cc, p)) < required_attestations(n_confirmed, n_honest_participants)
          \/ bundle_of(st, cc, p) = << >>)
    /\ ~ (has_attested(st, cc, p) < required_attestations(n_confirmed, n_honest_participants))

\* reward_participants as it would be if the reputation were written whatever
\* the ledger answers
RECURSIVE reward_participants_ignoring_ledger(_, _, _, _, _, _, _)
reward_participants_ignoring_ledger(acc, cid, cindex, meetup_participants, i, ballot, ok_accounts) ==
    IF i > Len(meetup_participants) THEN acc
    ELSE LET p == meetup_participants[i]
             cc == <<cid, cindex>>
         IN  reward_participants_ignoring_ledger(
                 IF ~ merits_reward(acc.store, cc, p, ballot[1], ballot[2]) THEN acc
                 ELSE [store |-> [acc.store EXCEPT !.ParticipantReputation =
                                      Insert(@, <<cc, p>>, "VerifiedUnlinked")],
                       issued |-> Append(acc.issued,
                                    [cid |-> cid, cindex |-> cindex, account |-> p,
                                     ok |-> p \in ok_accounts])],
                 cid, cindex, meetup_participants, i + 1, ballot, ok_accounts)

\* The loops of issue_rewards carry acc = [store, issued]: issued is the list
\* of the calls of encointer_balances::issue, each with the ceremony it is for
\* and its outcome.  issue(cid, p, reward) succeeds exactly for p in ok_accounts.
\* the loop over the participants of meetup m from position i on
RECURSIVE reward_participants(_, _, _, _, _, _, _)
reward_participants(acc, cid, cindex, meetup_participants, i, ballot, ok_accounts) ==
    IF i > Len(meetup_participants) THEN acc
    ELSE LET p == meetup_participants[i]
             cc == <<cid, cindex>>
             ok == p \in ok_accounts
         IN  reward_participants(
                 IF ~ merits_reward(acc.store, cc, p, ballot[1], ballot[2]) THEN acc
                 ELSE [store |-> IF ok
                                 THEN [acc.store EXCEPT !.ParticipantReputation =
                                          Insert(@, <<cc, p>>, "VerifiedUnlinked")]
                                 ELSE acc.store,
                       issued |-> Append(acc.issued,
                                    [cid |-> cid, cindex |-> cindex, account |-> p, ok |-> ok])],
                 cid, cindex, meetup_participants, i + 1, ballot, ok_accounts)

\* the loop over the meetups of a community from index m on
RECURSIVE reward_meetups(_, _, _, _, _)
reward_meetups(acc, cid, cindex, m, ok_accounts) ==
    IF m > meetup_count(acc.store, <<cid, cindex>>) THEN acc
    ELSE LET ballot == ballot_meetup_n_votes(acc.store, cid, cindex, m)
         IN  reward_meetups(
                 IF ballot = None THEN acc
                 ELSE reward_participants(acc, cid, cindex,
                          meetup_registry(acc.store, <<cid, cindex>>, m), 1,
                          ballot[1], ok_accounts),
                 cid, cindex, m + 1, ok_accounts)

\* the loop over the communities from position c on
RECURSIVE reward_communities(_, _, _, _)
reward_communities(acc, cindex, c, ok_accounts) ==
    IF c > Len(currency_identifiers) THEN acc
    ELSE reward_communities(
            reward_meetups(acc, currency_identifiers[c], cindex, 1, ok_accounts),
            cindex, c + 1, ok_accounts)

\* the ceremony the rewards are issued for
rewarded_ceremony(current_index) == current_index - 1

issue_rewards(st, phase, current_index, ok_accounts) ==
    IF phase # "REGISTERING" THEN [store |-> st, issued |-> << >>]
    ELSE reward_communities([store |-> st, issued |-> << >>],
                            rewarded_ceremony(current_index), 1, ok_accounts)

\* ----------------------------------------------------------- purge_registry

\* purge_community as it would be with the reverse index of the attestations
\* forgotten
purge_community_keeping_attestation_index(st, cc) ==
    [st EXCEPT
        !.ParticipantRegistry = RemovePrefix(@, cc),
        !.ParticipantIndex = RemovePrefix(@, cc),
        !.ParticipantCount = Insert(@, cc, 0),
        !.MeetupRegistry = RemovePrefix(@, cc),
        !.MeetupIndex = RemovePrefix(@, cc),
        !.MeetupCount = Insert(@, cc, 0),
        !.AttestationRegistry = RemovePrefix(@, cc),
        !.AttestationCount = Insert(@, cc, 0),
        !.MeetupParticipantCountVote = RemovePrefix(@, cc)]

purge_community(st, cc) ==
    [st EXCEPT
        !.ParticipantRegistry = RemovePrefix(@, cc),
        !.ParticipantIndex = RemovePrefix(@, cc),
        !.ParticipantCount = Insert(@, cc, 0),
        !.MeetupRegistry = RemovePrefix(@, cc),
        !.MeetupIndex = RemovePrefix(@, cc),
        !.MeetupCount = Insert(@, cc, 0),
        !.AttestationRegistry = RemovePrefix(@, cc),
        !.AttestationIndex = RemovePrefix(@, cc),
        !.AttestationCount = Insert(@, cc, 0),
        !.MeetupParticipantCountVote = RemovePrefix(@, cc)]

\* the loop over the communities from position c on
RECURSIVE purge_from(_, _, _)
purge_from(st, cindex, c) ==
    IF c > Len(currency_identifiers) THEN st
    ELSE purge_from(purge_community(st, <<currency_identifiers[c], cindex>>), cindex, c + 1)

purge_registry(st, cindex) == purge_from(st, cindex, 1)

\* ------------------------------------------------- on_ceremony_phase_change

\* the hook, called with the phase and the ceremony index the scheduler has
\* already stored
\* on_ceremony_phase_change as it would be if the REGISTERING hook purged the
\* ceremony before it issued the rewards
on_ceremony_phase_change_purging_first(st, new_phase, current_index, ok_accounts) ==
    IF new_phase = "ASSIGNING"
    THEN [panic |-> assign_meetups(st, current_index).panic,
          store |-> assign_meetups(st, current_index).store,
          issued |-> << >>]
    ELSE IF new_phase = "ATTESTING"
    THEN [panic |-> FALSE, store |-> st, issued |-> << >>]
    ELSE LET rewarded == issue_rewards(purge_registry(st, current_index - 1),
                                       new_phase, current_index, ok_accounts)
         IN  [panic |-> FALSE, store |-> rewarded.store, issued |-> rewarded.issued]

\* on_ceremony_phase_change as it would be if the REGISTERING hook did not
\* purge the ceremony it has rewarded
on_ceremony_phase_change_without_purge(st, new_phase, current_index, ok_accounts) ==
    IF new_phase = "ASSIGNING"
    THEN [panic |-> assign_meetups(st, current_index).panic,
          store |-> assign_meetups(st, current_index).store,
          issued |-> << >>]
    ELSE IF new_phase = "ATTESTING"
    THEN [panic |-> FALSE, store |-> st, issued |-> << >>]
    ELSE LET rewarded == issue_rewards(st, new_phase, current_index, ok_accounts)
         IN  [panic |-> FALSE, store |-> rewarded.store, issued |-> rewarded.issued]

on_ceremony_phase_change(st, new_phase, current_index, ok_accounts) ==
    IF new_phase = "ASSIGNING"
    THEN [panic |-> assign_meetups(st, current_index).panic,
          store |-> assign_meetups(st, current_index).store,
          issued |-> << >>]
    ELSE IF new_phase = "ATTESTING"
    THEN [panic |-> FALSE, store |-> st, issued |-> << >>]
    ELSE LET rewarded == issue_rewards(st, new_phase, current_index, ok_accounts)
         IN  [panic |-> FALSE,
              store |-> purge_registry(rewarded.store, current_index - 1),
              issued |-> rewarded.issued]

\* ------------------------------------------------------------------- state

VARIABLES
    store,                      \* the pallet's storage
    current_phase,              \* encointer_scheduler::current_phase()
    current_ceremony_index,     \* encointer_scheduler::current_ceremony_index()
    issued,                     \* the calls of encointer_balances::issue so far
    consumed,                   \* per credential, the registrations that used it as proof
    grants                      \* successful grant_reputation calls so far

vars == << store, current_phase, current_ceremony_index, issued, consumed, grants >>

Genesis ==
    /\ store = EmptyStore
    /\ current_phase = "REGISTERING"
    /\ current_ceremony_index = 1
    /\ issued = << >>
    /\ consumed = EmptyMap
    /\ grants = 0

\* the credential a proof names
credential_of(p) == << <<p.currency_identifier, p.ceremony_index>>, p.attendee_public >>

\* ----------------------------------------------------------------- actions

GrantReputation(sender, cid, reputable) ==
    LET call == grant_reputation(store, current_ceremony_index, sender, cid, reputable)
    IN  /\ call.res = "Ok" => grants < MaxGrants
        /\ store' = call.store
        /\ grants' = IF call.res = "Ok" THEN grants + 1 ELSE grants
        /\ UNCHANGED << current_phase, current_ceremony_index, issued, consumed >>

RegisterParticipant(sender, cid, proof) ==
    LET call == register_participant(store, current_phase, current_ceremony_index,
                                     sender, cid, proof)
    IN  /\ store' = call.store
        /\ consumed' = IF call.res = "Ok" /\ proof # None
                       THEN Insert(consumed, credential_of(proof[1]),
                                   Get(consumed, credential_of(proof[1]), 0) + 1)
                       ELSE consumed
        /\ UNCHANGED << current_phase, current_ceremony_index, issued, grants >>

RegisterAttestations(sender, attestations) ==
    LET call == register_attestations(store, current_phase, current_ceremony_index,
                                      sender, attestations)
    IN  /\ store' = call.store
        /\ UNCHANGED << current_phase, current_ceremony_index, issued, consumed, grants >>

\* encointer_scheduler: the phase after the current one, and the ceremony
\* index, which grows when REGISTERING is entered
next_phase(phase) ==
    IF phase = "REGISTERING" THEN "ASSIGNING"
    ELSE IF phase = "ASSIGNING" THEN "ATTESTING"
    ELSE "REGISTERING"

next_ceremony_index(phase, cindex) == IF phase = "ATTESTING" THEN cindex + 1 ELSE cindex

\* The scheduler stores the new phase (and index) and calls the hook.  A
\* panic of the hook aborts the block, which leaves the state as it was.
NextPhase(ok_accounts) ==
    LET new_phase == next_phase(current_phase)
        new_index == next_ceremony_index(current_phase, current_ceremony_index)
        hook == on_ceremony_phase_change(store, new_phase, new_index, ok_accounts)
    IN  /\ current_ceremony_index < MaxCeremonyIndex
        /\ IF hook.panic
           THEN UNCHANGED << store, current_phase, current_ceremony_index, issued >>
           ELSE /\ store' = hook.store
                /\ current_phase' = new_phase
                /\ current_ceremony_index' = new_index
                /\ issued' = issued \o hook.issued
        /\ UNCHANGED << consumed, grants >>

\* ------------------------------------------------------------------ inputs

\* an account other than a
OtherAccount(a) == (a % NumAccounts) + 1

\* A proof of attendance the sender presents for the credential of an
\* attendee: a proof that passes every check but the reputation's, or one that
\* departs from it in the one way `kind` names.
proof_of(sender, attendee, kind) ==
    LET prover == IF kind = "other prover" THEN OtherAccount(sender) ELSE sender
        ci == IF kind = "acausal" THEN current_ceremony_index
              ELSE IF kind = "outdated" /\ current_ceremony_index >= 2
              THEN current_ceremony_index - 2
              ELSE current_ceremony_index - 1
    IN  Some([ prover_public |-> prover,
               ceremony_index |-> ci,
               currency_identifier |-> "cidA",
               attendee_public |-> attendee,
               attendee_signature |->
                  IF kind = "other signer" THEN Sign(OtherAccount(attendee), <<prover, ci>>)
                  ELSE IF kind = "other message" THEN Sign(attendee, <<prover, ci + 1>>)
                  ELSE Sign(attendee, <<prover, ci>>) ])

ProofKinds == { "good", "other prover", "acausal", "outdated", "other signer", "other message" }

\* the account of the life cycle that is no bootstrapper: the ceremony master
\* grants it reputation
Newcomer == NumAccounts

ProofInputs(sender) ==
    { proof_of(sender, at, kind) : at \in { sender, Newcomer }, kind \in ProofKinds }

\* the claim of attendance of an account at its own meetup
claim_of(claimant, cid, vote) ==
    LET meetup_idx == meetup_index(store, <<cid, current_ceremony_index>>, claimant)
        mlocation == get_meetup_location(cid, meetup_idx)
        mtime == get_meetup_time(current_phase, cid, meetup_idx)
    IN  [ claimant_public |-> claimant,
          ceremony_index |-> current_ceremony_index,
          currency_identifier |-> cid,
          meetup_index |-> meetup_idx,
          location |-> IF meetup_idx = 0 \/ mlocation = None
                       THEN [lat |-> 0, lon |-> 0] ELSE mlocation[1],
          timestamp |-> IF meetup_idx = 0 \/ mtime = None THEN AttestingStart ELSE mtime[1],
          number_of_participants_confirmed |-> vote ]

\* the claim, signed by a witness
attestation_by(witness, claim) ==
    [ claim |-> claim, signature |-> Sign(witness, claim), public |-> witness ]

\* what an account hands in after a meetup: its claim signed by each witness
\* of a list
SignedBy(witnesses, claim) == [i \in DOMAIN witnesses |-> attestation_by(witnesses[i], claim)]

\* the lists of 1 .. n pairwise different accounts of a set, in ascending order
RECURSIVE AscendingSeq(_)
AscendingSeq(S) ==
    IF S = {} THEN << >>
    ELSE LET m == CHOOSE x \in S : \A y \in S : x <= y
         IN  << m >> \o AscendingSeq(S \ {m})

\* --------------------------------------------------- the life cycle (Spec)

Init == Genesis

Next ==
    \/ \E sender \in { CeremonyMaster, OtherAccount(CeremonyMaster) } :
            GrantReputation(sender, "cidA", Newcomer)
    \/ \E sender \in Accounts :
            \E proof \in { None } \cup ProofInputs(sender) :
                RegisterParticipant(sender, "cidA", proof)
    \/ \E sender \in Accounts : RegisterParticipant(sender, UnknownCid, None)
    \/ \E sender \in Accounts :
            RegisterAttestations(sender,
                SignedBy(AscendingSeq(Accounts \ {sender}), claim_of(sender, "cidA", NumAccounts)))
    \/ \E ok_accounts \in SUBSET Accounts : NextPhase(ok_accounts)

Spec == Init /\ [][Next]_vars

\* ------------------------------------ registries for assign_meetups (SpecAssign)

\* the proof an account presents for its own credential of ceremony ci
own_proof(account, ci) ==
    Some([ prover_public |-> account,
           ceremony_index |-> ci,
           currency_identifier |-> "cidA",
           attendee_public |-> account,
           attendee_signature |-> Sign(account, <<account, ci>>) ])

\* The storage after the accounts of a list have registered for ceremony 1 of
\* cidA, in the order of the list: those of `with_proof` after the ceremony
\* master granted them reputation, with a proof of it, the others without.
RECURSIVE registered(_, _, _)
registered(st, accounts, with_proof) ==
    IF accounts = << >> THEN st
    ELSE LET a == Head(accounts)
             granted == grant_reputation(st, 1, CeremonyMaster, "cidA", a).store
         IN  registered(
                 IF a \in with_proof
                 THEN register_participant(granted, "REGISTERING", 1, a, "cidA",
                                           own_proof(a, 0)).store
                 ELSE register_participant(st, "REGISTERING", 1, a, "cidA", None).store,
                 Tail(accounts), with_proof)

\* reputables are the accounts 1 .. R (the bootstrappers among them), newbies
\* the accounts 101 .. 100 + W
reputable_accounts(R) == [i \in 1 .. R |-> i]
newbie_accounts(W) == [i \in 1 .. W |-> 100 + i]

\* the two lists merged one by one, the rest of the longer one last
RECURSIVE alternate(_, _)
alternate(a, b) ==
    IF a = << >> THEN b
    ELSE IF b = << >> THEN a
    ELSE << Head(a), Head(b) >> \o alternate(Tail(a), Tail(b))

registration_order(R, W, pattern) ==
    IF pattern = "reputables first" THEN reputable_accounts(R) \o newbie_accounts(W)
    ELSE IF pattern = "newbies first" THEN newbie_accounts(W) \o reputable_accounts(R)
    ELSE alternate(newbie_accounts(W), reputable_accounts(R))

\* what registered(EmptyStore, accounts, with_proof) evaluates to, written out:
\* the registry of ceremony 1 of cidA and the reputations of ceremonies 0 and 1
registry_of(accounts, with_proof) ==
    LET cc == <<"cidA", 1>>
    IN  [ EmptyStore EXCEPT
            !.ParticipantRegistry = [k \in { <<cc, i>> : i \in DOMAIN accounts } |-> accounts[k[2]]],
            !.ParticipantIndex =
                [k \in { <<cc, accounts[i]>> : i \in DOMAIN accounts } |->
                    CHOOSE i \in DOMAIN accounts : accounts[i] = k[2]],
            !.ParticipantCount = IF accounts = << >> THEN EmptyMap ELSE [k \in { cc } |-> Len(accounts)],
            !.ParticipantReputation =
                [k \in { << <<"cidA", 0>>, a >> : a \in with_proof }
                        \cup { << cc, a >> : a \in with_proof } |->
                    IF k[1] = cc THEN "UnverifiedReputable" ELSE "VerifiedLinked"] ]

InitAssign ==
    \E R \in 0 .. MaxReputables, W \in 0 .. MaxNewbies :
        \E pattern \in { "reputables first", "newbies first", "alternating" } :
            /\ store = registry_of(registration_order(R, W, pattern),
                                   (1 .. R) \ bootstrappers("cidA"))
            /\ current_phase = "REGISTERING"
            /\ current_ceremony_index = 1
            /\ issued = << >>
            /\ consumed = [k \in { << <<"cidA", 0>>, a >> : a \in (1 .. R) \ bootstrappers("cidA") }
                            |-> 1]
            /\ grants = Cardinality((1 .. R) \ bootstrappers("cidA"))

NextAssign == current_phase = "REGISTERING" /\ NextPhase({})

SpecAssign == InitAssign /\ [][NextAssign]_vars

\* --------------------------------------- attestations of a meetup (SpecAttest)

\* An attestation handed in by `sender`, signed by `signer`, with the vote
\* `vote`: an attestation of the sender's own claim at its meetup, or one that
\* departs from it in the one way `kind` names.
attestation_of(sender, signer, vote, kind) ==
    LET claimant == IF kind = "self signed" THEN signer
                    ELSE IF kind = "other claimant" THEN OtherAccount(sender)
                    ELSE sender
        own == claim_of(sender, "cidA", vote)
        claim == [own EXCEPT !.claimant_public = claimant]
    IN  [ claim |-> claim,
          signature |-> IF kind = "other signature"
                        THEN Sign(signer, [claim EXCEPT !.timestamp = @ + 1])
                        ELSE Sign(signer, claim),
          public |-> signer ]

AttestationKinds == { "good", "self signed", "other claimant", "other signature" }

\* the headcounts the members of the meetup vote for
Votes == { NumAccounts, NumAccounts + 1 }

\* as many attestations as the meetup has members: one more than its peers
OnePerMember(sender, vote) == SignedBy(AscendingSeq(Accounts), claim_of(sender, "cidA", vote))

\* ceremony 1 of cidA in its ATTESTING phase: the bootstrappers and the
\* newcomer, which the ceremony master granted reputation, have registered and
\* were assigned to a meetup
InitAttest ==
    /\ store = assign_meetups(
                    registered(EmptyStore, AscendingSeq(bootstrappers("cidA") \cup { Newcomer }),
                               { Newcomer }),
                    1).store
    /\ current_phase = "ATTESTING"
    /\ current_ceremony_index = 1
    /\ issued = << >>
    /\ consumed = [k \in { << <<"cidA", 0>>, Newcomer >> } |-> 1]
    /\ grants = 1

\* the newcomer hands in any of the lists, a bootstrapper its own claim
\* signed by some of the other members
NextAttest ==
    \/ \E vote \in Votes, s1 \in Accounts, k1 \in AttestationKinds :
            RegisterAttestations(Newcomer, << attestation_of(Newcomer, s1, vote, k1) >>)
    \/ \E vote \in Votes, s1 \in Accounts, k1 \in AttestationKinds :
            \E s2 \in Accounts, k2 \in {"good", "other claimant"} :
                RegisterAttestations(Newcomer, << attestation_of(Newcomer, s1, vote, k1),
                                                 attestation_of(Newcomer, s2, vote, k2) >>)
    \/ \E vote \in Votes : RegisterAttestations(Newcomer, OnePerMember(Newcomer, vote))
    \/ \E sender \in bootstrappers("cidA"), vote \in Votes :
            \E witnesses \in { Accounts \ {sender}, {Newcomer} } :
                RegisterAttestations(sender,
                    SignedBy(AscendingSeq(witnesses), claim_of(sender, "cidA", vote)))
    \/ \E ok_accounts \in SUBSET Accounts :
            current_phase = "ATTESTING" /\ NextPhase(ok_accounts)

SpecAttest == InitAttest /\ [][NextAttest]_vars

\* ------------------------------------------- the reward ballot (SpecBallot)

\* the claim of attendance of an account at its own meetup, in the ATTESTING
\* phase of ceremony cindex on the storage st
claim_in(st, cindex, claimant, cid, vote) ==
    LET meetup_idx == meetup_index(st, <<cid, cindex>>, claimant)
    IN  [ claimant_public |-> claimant,
          ceremony_index |-> cindex,
          currency_identifier |-> cid,
          meetup_index |-> meetup_idx,
          location |-> get_meetup_location(cid, meetup_idx)[1],
          timestamp |-> get_meetup_time("ATTESTING", cid, meetup_idx)[1],
          number_of_participants_confirmed |-> vote ]

\* the headcounts a member votes for; 0 stands for a member that hands in nothing
HeadcountVotes == { 0, 3, 4, 5 }

\* whose signatures a member of a meetup of n hands in: those of all other
\* members, or those of its two neighbours in the roster
WitnessPatterns == { "complete", "neighbours" }

witnesses_for(member, n, pattern) ==
    IF pattern = "complete" THEN (1 .. n) \ { member }
    ELSE { (member % n) + 1, ((member + n - 2) % n) + 1 }

\* the storage after the members i .. n of the meetup of 1 .. n have handed in
\* their attestations, each with its vote
RECURSIVE attested(_, _, _, _, _)
attested(st, n, votes, pattern, i) ==
    IF i > n THEN st
    ELSE attested(
            IF votes[i] = 0 THEN st
            ELSE register_attestations(st, "ATTESTING", 1, i,
                     SignedBy(AscendingSeq(witnesses_for(i, n, pattern)),
                              claim_in(st, 1, i, "cidA", votes[i]))).store,
            n, votes, pattern, i + 1)

\* ceremony 1 of cidA at the end of its ATTESTING phase: the accounts 1 .. n,
\* all reputable, form one meetup and have voted
InitBallot ==
    \E n \in (MaxMeetupSize - 1) .. MaxMeetupSize, pattern \in WitnessPatterns :
        \E votes \in [1 .. n -> HeadcountVotes] :
            /\ store = attested(
                            assign_meetups(registry_of(reputable_accounts(n),
                                                       (1 .. n) \ bootstrappers("cidA")),
                                           1).store,
                            n, votes, pattern, 1)
            /\ current_phase = "ATTESTING"
            /\ current_ceremony_index = 1
            /\ issued = << >>
            /\ consumed = [k \in { << <<"cidA", 0>>, a >> : a \in (1 .. n) \ bootstrappers("cidA") }
                            |-> 1]
            /\ grants = Cardinality((1 .. n) \ bootstrappers("cidA"))

\* the sets of accounts the ledger's issue succeeds for in SpecBallot:
\* everyone, no one, or everyone but account 1
LedgerChoices == { 1 .. MaxMeetupSize, {}, 2 .. MaxMeetupSize }

NextBallot ==
    \E ok_accounts \in LedgerChoices :
        current_phase = "ATTESTING" /\ NextPhase(ok_accounts)

SpecBallot == InitBallot /\ [][NextBallot]_vars

\* ================================================================== claims

\* the reputation of a credential << <<community, ceremony index>>, attendee >>
reputation_of(st, cred) == participant_reputation(st, cred[1], cred[2])

\* the outcome of a register_participant call in the current state
registration(sender, cid, proof) ==
    register_participant(store, current_phase, current_ceremony_index, sender, cid, proof)

\* ---------------------------------------------------------------------- C1

\* C1, as the specification states it: once a registration has consumed a
\* credential as its proof, no later registration with a proof for the same
\* credential succeeds, whatever calls and phase changes come between: no
\* credential is ever consumed twice.
C1_NoCredentialConsumedTwice ==
    \A cred \in DOMAIN consumed : consumed[cred] <= 1

\* C1, as the code has it: a registration consumes a credential only while it
\* is VerifiedUnlinked and leaves it VerifiedLinked in the same step; while a
\* consumed credential is VerifiedLinked no registration with a proof for it
\* succeeds; and the only step that takes a consumed credential out of
\* VerifiedLinked is a grant_reputation call of the ceremony master for the
\* same community, ceremony index and account.
C1_LinkedUntilGrantedAgain ==
    [][ \A cred \in DOMAIN consumed' :
            /\ consumed'[cred] # Get(consumed, cred, 0) =>
                    /\ consumed'[cred] = Get(consumed, cred, 0) + 1
                    /\ reputation_of(store, cred) = "VerifiedUnlinked"
                    /\ reputation_of(store', cred) = "VerifiedLinked"
            /\ (cred \in DOMAIN consumed /\ reputation_of(store, cred) = "VerifiedLinked") =>
                    \A sender \in Accounts, kind \in ProofKinds :
                        credential_of(proof_of(sender, cred[2], kind)[1]) = cred =>
                            registration(sender, "cidA", proof_of(sender, cred[2], kind)).res # "Ok"
            /\ (/\ cred \in DOMAIN consumed
                /\ reputation_of(store, cred) = "VerifiedLinked"
                /\ reputation_of(store', cred) # "VerifiedLinked") =>
                    /\ cred[1][2] = current_ceremony_index - 1
                    /\ grants' = grants + 1
                    /\ store' = grant_reputation(store, current_ceremony_index, CeremonyMaster,
                                                 cred[1][1], cred[2]).store
      ]_vars

\* a consumed credential is VerifiedLinked and an account that is not yet
\* registered presents an otherwise good proof for it, in vain
C1_LinkedCredentialRefused ==
    \E cred \in DOMAIN consumed, sender \in Accounts :
        /\ consumed[cred] = 1
        /\ reputation_of(store, cred) = "VerifiedLinked"
        /\ current_phase = "REGISTERING"
        /\ ~ is_registered(store, <<"cidA", current_ceremony_index>>, sender)
        /\ credential_of(proof_of(sender, cred[2], "good")[1]) = cred
        /\ registration(sender, "cidA", proof_of(sender, cred[2], "good")).res =
                "former attendance has not been verified or has already been linked to other account"

\* ---------------------------------------------------------------------- C6

\* the account holds a participant index for the current ceremony of cid
holds_participant_index(cid, account) ==
    << <<cid, current_ceremony_index>>, account >> \in DOMAIN store.ParticipantIndex

\* the call left the registry and every reputation entry as they were
registry_unchanged(call) ==
    /\ call.store.ParticipantCount = store.ParticipantCount
    /\ call.store.ParticipantRegistry = store.ParticipantRegistry
    /\ call.store.ParticipantIndex = store.ParticipantIndex
    /\ call.store.ParticipantReputation = store.ParticipantReputation

\* C6, as the specification states it: a register_participant call of an
\* account that already holds a participant index for the current ceremony of
\* the community, with or without proof, fails with
\* ParticipantAlreadyRegistered and changes neither the registry nor any
\* reputation entry.
C6_ReregistrationIsAlreadyRegistered ==
    \A sender \in Accounts :
        \A proof \in { None } \cup ProofInputs(sender) :
            holds_participant_index("cidA", sender) =>
                /\ registration(sender, "cidA", proof).res = "ParticipantAlreadyRegistered"
                /\ registry_unchanged(registration(sender, "cidA", proof))

\* C6, as the code has it: such a call always fails and changes neither the
\* registry nor any reputation entry; the error is
\* ParticipantAlreadyRegistered while the phase is REGISTERING, and the phase
\* error otherwise, because the phase is checked first.
C6_ReregistrationFails ==
    \A sender \in Accounts :
        \A proof \in { None } \cup ProofInputs(sender) :
            holds_participant_index("cidA", sender) =>
                /\ registration(sender, "cidA", proof).res =
                        IF current_phase = "REGISTERING"
                        THEN "ParticipantAlreadyRegistered"
                        ELSE "registering participants can only be done during REGISTERING phase"
                /\ registry_unchanged(registration(sender, "cidA", proof))

\* a registered account registers again with a proof that would be accepted
\* from an account that is not registered, and gets ParticipantAlreadyRegistered
C6_RegisteredPresentsGoodProof ==
    \E sender \in Accounts :
        /\ current_phase = "REGISTERING"
        /\ holds_participant_index("cidA", sender)
        /\ proof_error(store, current_ceremony_index, sender,
                       proof_of(sender, Newcomer, "good")[1]) = ""
        /\ registration(sender, "cidA", proof_of(sender, Newcomer, "good")).res =
                "ParticipantAlreadyRegistered"

\* ---------------------------------------------------------------------- C7

\* the five conditions on a proof
proof_is_acceptable(sender, p) ==
    /\ p.prover_public = sender
    /\ p.ceremony_index < current_ceremony_index
    /\ p.ceremony_index >= current_ceremony_index - 1
    /\ reputation_of(store, credential_of(p)) = "VerifiedUnlinked"
    /\ p.attendee_signature = Sign(p.attendee_public, <<p.prover_public, p.ceremony_index>>)

\* C7: a register_participant call fails and changes no state whenever the
\* phase is not REGISTERING, the community is unknown, or the proof it carries
\* violates one of: prover = caller; proof ceremony index < current index;
\* proof ceremony index >= current index - 1; the credential is
\* VerifiedUnlinked; the attendee's signature over (prover, ceremony index)
\* verifies.
C7_RejectedRegistrationChangesNothing ==
    \A sender \in Accounts, cid \in AllCids :
        \A proof \in { None } \cup ProofInputs(sender) :
            (\/ current_phase # "REGISTERING"
             \/ ~ IsKnownCid(cid)
             \/ (proof # None /\ ~ proof_is_acceptable(sender, proof[1]))) =>
                /\ registration(sender, cid, proof).res # "Ok"
                /\ registration(sender, cid, proof).store = store

\* in the second ceremony the newcomer holds a VerifiedUnlinked credential and
\* is not registered: its good proof would be accepted, and each proof that
\* departs from it in one condition is rejected
C7_OnlyTheGoodProofPasses ==
    /\ current_phase = "REGISTERING"
    /\ current_ceremony_index = 2
    /\ ~ holds_participant_index("cidA", Newcomer)
    /\ reputation_of(store, << <<"cidA", 1>>, Newcomer >>) = "VerifiedUnlinked"
    /\ registration(Newcomer, "cidA", proof_of(Newcomer, Newcomer, "good")).res = "Ok"
    /\ \A kind \in ProofKinds \ { "good" } :
            registration(Newcomer, "cidA", proof_of(Newcomer, Newcomer, kind)).res # "Ok"

\* --------------------------------------------------------------------- C10

\* the entries of a double map whose first key is cc
entries_of(map, cc) == [k \in { x \in DOMAIN map : x[1] = cc } |-> map[k]]

\* the per-ceremony state of cc: the three counts and the seven maps
ceremony_state(st, cc) ==
    [ participant_count |-> participant_count(st, cc),
      meetup_count |-> meetup_count(st, cc),
      attestation_count |-> attestation_count(st, cc),
      ParticipantRegistry |-> entries_of(st.ParticipantRegistry, cc),
      ParticipantIndex |-> entries_of(st.ParticipantIndex, cc),
      MeetupRegistry |-> entries_of(st.MeetupRegistry, cc),
      MeetupIndex |-> entries_of(st.MeetupIndex, cc),
      AttestationRegistry |-> entries_of(st.AttestationRegistry, cc),
      AttestationIndex |-> entries_of(st.AttestationIndex, cc),
      MeetupParticipantCountVote |-> entries_of(st.MeetupParticipantCountVote, cc) ]

\* the known communities
KnownCids == { currency_identifiers[i] : i \in DOMAIN currency_identifiers }

\* zero counts and empty maps for ceremony index k in every known community
ceremony_is_empty(st, k) ==
    \A cid \in KnownCids : ceremony_state(st, <<cid, k>>) = ceremony_state(EmptyStore, <<cid, k>>)

\* C10: purging ceremony index k leaves, for every known community, zero
\* participant, meetup and attestation counts and empty participant, meetup,
\* attestation and headcount-vote maps and reverse indices for k, and changes
\* neither a reputation entry nor the per-ceremony state of another ceremony
\* index.  The hook of the REGISTERING phase purges the ceremony that ended:
\* its reputation entries are those issue_rewards left, the state of the new
\* ceremony index is as before, and the ceremonies before the current one stay
\* empty.
C10_PurgeEmptiesTheCeremonyOnly ==
    /\ \A k \in 0 .. MaxCeremonyIndex :
            /\ ceremony_is_empty(purge_registry(store, k), k)
            /\ purge_registry(store, k).ParticipantReputation = store.ParticipantReputation
            /\ \A other \in (0 .. MaxCeremonyIndex) \ { k }, cid \in KnownCids :
                    ceremony_state(purge_registry(store, k), <<cid, other>>) =
                        ceremony_state(store, <<cid, other>>)
    /\ current_phase = "ATTESTING" =>
            \A ok_accounts \in SUBSET Accounts :
                LET new_index == current_ceremony_index + 1
                    hook == on_ceremony_phase_change(store, "REGISTERING", new_index, ok_accounts)
                    rewarded == issue_rewards(store, "REGISTERING", new_index, ok_accounts)
                IN  /\ ~ hook.panic
                    /\ ceremony_is_empty(hook.store, current_ceremony_index)
                    /\ hook.store.ParticipantReputation = rewarded.store.ParticipantReputation
                    /\ \A cid \in KnownCids :
                            ceremony_state(hook.store, <<cid, new_index>>) =
                                ceremony_state(store, <<cid, new_index>>)
    /\ \A k \in 0 .. MaxCeremonyIndex :
            k < current_ceremony_index => ceremony_is_empty(store, k)

\* the second ceremony has begun: the hook has rewarded members of the first
\* ceremony and purged it, and the reputation it wrote for the first ceremony
\* is still there
C10_PurgedAfterRewards ==
    /\ current_phase = "REGISTERING"
    /\ current_ceremony_index = 2
    /\ <<"cidA", 1>> \in DOMAIN store.AttestationCount
    /\ ceremony_is_empty(store, 1)
    /\ \E i \in DOMAIN issued : issued[i].ok /\ issued[i].cindex = 1
    /\ \E account \in Accounts :
            reputation_of(store, << <<"cidA", 1>>, account >>) = "VerifiedUnlinked"

\* ----------------------------------------------------------------- C2, C3

\* the accounts of a list
Range(seq) == { seq[i] : i \in DOMAIN seq }

\* the members of meetup m that voted for the headcount v
votes_for(st, cc, m, v) ==
    Cardinality({ a \in Range(meetup_registry(st, cc, m)) :
                    meetup_participant_count_vote(st, cc, a) = v })

\* the headcounts the members of meetup m voted for; no vote reads as 0
votes_cast(st, cc, m) ==
    { meetup_participant_count_vote(st, cc, a) : a \in Range(meetup_registry(st, cc, m)) } \ { 0 }

\* the number of votes for the most-voted headcount of meetup m, 0 without votes
winning_count(st, cc, m) ==
    IF votes_cast(st, cc, m) = {} THEN 0
    ELSE CHOOSE c \in { votes_for(st, cc, m, v) : v \in votes_cast(st, cc, m) } :
            \A v \in votes_cast(st, cc, m) : votes_for(st, cc, m, v) <= c

\* the most-voted headcounts of meetup m
winning_values(st, cc, m) ==
    { v \in votes_cast(st, cc, m) : votes_for(st, cc, m, v) = winning_count(st, cc, m) }

\* the accounts of p's bundle that have p in their own bundle
reciprocating_accounts(st, cc, p) ==
    { a \in Range(bundle_of(st, cc, p)) : p \in Range(bundle_of(st, cc, a)) }

\* the entries of p's bundle that name such an account
reciprocating_entries(st, cc, p) ==
    { i \in DOMAIN bundle_of(st, cc, p) : bundle_of(st, cc, p)[i] \in reciprocating_accounts(st, cc, p) }

\* the reward ballot of the ceremony that ends, run on the current state
reward_ballot(ok_accounts) ==
    issue_rewards(store, "REGISTERING", current_ceremony_index + 1, ok_accounts)

\* C2, as the specification states it: the reward ballot issues a reward to a
\* member only if at least w - 1 accounts of the member's bundle have the
\* member in their own bundle, w being the winning headcount value of the
\* member's meetup.
C2_RewardNeedsWinningValueWitnesses ==
    current_phase = "ATTESTING" =>
        \A ok_accounts \in SUBSET Accounts :
            \A i \in DOMAIN reward_ballot(ok_accounts).issued :
                LET r == reward_ballot(ok_accounts).issued[i]
                    cc == <<r.cid, r.cindex>>
                    m == meetup_index(store, cc, r.account)
                IN  r.ok =>
                        \E w \in winning_values(store, cc, m) :
                            Cardinality(reciprocating_accounts(store, cc, r.account)) >= w - 1

\* C2, as the code has it: the reward ballot issues a reward to a member only
\* if at least c - 1 entries of the member's bundle name accounts that have
\* the member in their own bundle, c being the number of votes cast for the
\* winning headcount value of the member's meetup (so the bundle has at least
\* c - 1 entries).
C2_RewardNeedsWinningCountWitnesses ==
    current_phase = "ATTESTING" =>
        \A ok_accounts \in SUBSET Accounts :
            \A i \in DOMAIN reward_ballot(ok_accounts).issued :
                LET r == reward_ballot(ok_accounts).issued[i]
                    cc == <<r.cid, r.cindex>>
                    m == meetup_index(store, cc, r.account)
                    c == winning_count(store, cc, m)
                IN  r.ok =>
                        /\ r.cindex = current_ceremony_index
                        /\ Cardinality(reciprocating_entries(store, cc, r.account)) >= c - 1
                        /\ Len(bundle_of(store, cc, r.account)) >= c - 1

\* three members voted for the same headcount; one of them is rewarded and
\* another, with fewer reciprocating witnesses than votes less one, is not
C2_OneRewardedOneNot ==
    /\ current_phase = "ATTESTING"
    /\ winning_count(store, <<"cidA", current_ceremony_index>>, 1) = 3
    /\ \E p, q \in Accounts :
            /\ \E i \in DOMAIN reward_ballot(Accounts).issued :
                    reward_ballot(Accounts).issued[i].account = p
            /\ \A i \in DOMAIN reward_ballot(Accounts).issued :
                    reward_ballot(Accounts).issued[i].account # q
            /\ Cardinality(reciprocating_entries(store, <<"cidA", current_ceremony_index>>, q)) = 1

\* C3: the reward ballot issues no reward to, and changes no reputation entry
\* of, a member of a meetup whose most-voted headcount has fewer than 3 votes,
\* a member without a vote counting for no headcount.
C3_NoRewardWithoutQuorum ==
    current_phase = "ATTESTING" =>
        \A ok_accounts \in SUBSET Accounts, cid \in KnownCids :
            LET cc == <<cid, current_ceremony_index>>
                after == reward_ballot(ok_accounts)
            IN  \A key \in DOMAIN store.MeetupRegistry :
                    (key[1] = cc /\ winning_count(store, cc, key[2]) < 3) =>
                        \A p \in Range(store.MeetupRegistry[key]) :
                            /\ \A i \in DOMAIN after.issued : after.issued[i].account # p
                            /\ \A k \in DOMAIN after.store.ParticipantReputation :
                                    k[2] = p =>
                                        /\ k \in DOMAIN store.ParticipantReputation
                                        /\ after.store.ParticipantReputation[k] =
                                                store.ParticipantReputation[k]

\* two members voted for the same headcount and have each other in their
\* bundles, the third voted for another one: the ballot issues nothing
C3_TwoAgreeingMembers ==
    /\ current_phase = "ATTESTING"
    /\ winning_count(store, <<"cidA", current_ceremony_index>>, 1) = 2
    /\ Cardinality(votes_cast(store, <<"cidA", current_ceremony_index>>, 1)) = 2
    /\ \E p \in Accounts :
            /\ meetup_participant_count_vote(store, <<"cidA", current_ceremony_index>>, p)
                    \in winning_values(store, <<"cidA", current_ceremony_index>>, 1)
            /\ reciprocating_entries(store, <<"cidA", current_ceremony_index>>, p) # {}
    /\ reward_ballot(Accounts).issued = << >>

\* ----------------------------------------------------------------- C8, C9

\* the outcome of a register_attestations call in the current state
attest(sender, attestations) ==
    register_attestations(store, current_phase, current_ceremony_index, sender, attestations)

\* the ceremony of cidA that is under way
current_cc == <<"cidA", current_ceremony_index>>

\* the meetup of an account in the current ceremony of cidA
roster_of(account) == meetup_registry(store, current_cc, meetup_index(store, current_cc, account))

\* every witness the call stored is the signer of an attestation of the list
\* whose signer is not its claimant
stored_witnesses_not_self_signed(attestations) ==
    attest(Newcomer, attestations).res = "Ok" =>
        \A w \in Range(bundle_of(attest(Newcomer, attestations).store, current_cc, Newcomer)) :
            \E i \in DOMAIN attestations :
                /\ attestations[i].public = w
                /\ attestations[i].public # attestations[i].claim.claimant_public

\* C8: register_attestations stores no witness on the strength of an
\* attestation whose signer is the claim's claimant (for every list of one or
\* two attestations, and the list of one attestation per member, that the
\* newcomer hands in), and in every reachable state no account is in its own
\* attestation bundle.
C8_NoSelfSignedWitness ==
    /\ \A account \in Accounts : account \notin Range(bundle_of(store, current_cc, account))
    /\ current_phase = "ATTESTING" =>
            /\ \A vote \in Votes, s1 \in Accounts, k1 \in AttestationKinds :
                    /\ stored_witnesses_not_self_signed(<< attestation_of(Newcomer, s1, vote, k1) >>)
                    /\ \A s2 \in Accounts, k2 \in { "good", "other claimant" } :
                            stored_witnesses_not_self_signed(<< attestation_of(Newcomer, s1, vote, k1),
                                   attestation_of(Newcomer, s2, vote, k2) >>)
            /\ \A vote \in Votes : stored_witnesses_not_self_signed(OnePerMember(Newcomer, vote))

\* the newcomer has handed in an attestation a peer signed for its own claim,
\* with a signature that verifies, together with a good one of the other
\* peer: only the latter's signer is in the bundle
C8_SelfSignedFilteredOut ==
    /\ current_phase = "ATTESTING"
    /\ bundle_of(store, current_cc, Newcomer) = << 2 >>
    /\ verify_attestation_signature_allowing_self(attestation_of(Newcomer, 1, NumAccounts, "self signed"))
    /\ Contains(roster_of(Newcomer), 1)
    /\ store = attest(Newcomer, << attestation_of(Newcomer, 1, NumAccounts, "self signed"),
                                   attestation_of(Newcomer, 2, NumAccounts, "good") >>).store

\* a successful call leaves between 1 and (size of the caller's meetup - 1)
\* witnesses in the caller's bundle, and a list longer than that fails and
\* stores nothing
submission_within_roster(attestations) ==
    /\ attest(Newcomer, attestations).res = "Ok" =>
            /\ Len(bundle_of(attest(Newcomer, attestations).store, current_cc, Newcomer)) >= 1
            /\ Len(bundle_of(attest(Newcomer, attestations).store, current_cc, Newcomer))
                    <= Len(roster_of(Newcomer)) - 1
    /\ Len(attestations) > Len(roster_of(Newcomer)) - 1 =>
            /\ attest(Newcomer, attestations).res # "Ok"
            /\ attest(Newcomer, attestations).store = store

\* C9: after every successful register_attestations call the caller's bundle
\* holds at least 1 and at most (size of the caller's meetup - 1) witnesses,
\* and a call with more attestations than the caller's meetup has other
\* members is rejected as a whole.
C9_BundleWithinRoster ==
    /\ \A account \in Accounts :
            << current_cc, account >> \in DOMAIN store.AttestationIndex =>
                /\ Len(bundle_of(store, current_cc, account)) >= 1
                /\ Len(bundle_of(store, current_cc, account)) <= Len(roster_of(account)) - 1
    /\ current_phase = "ATTESTING" =>
            /\ \A vote \in Votes, s1 \in Accounts, k1 \in AttestationKinds :
                    /\ submission_within_roster(<< attestation_of(Newcomer, s1, vote, k1) >>)
                    /\ \A s2 \in Accounts, k2 \in { "good", "other claimant" } :
                            submission_within_roster(<< attestation_of(Newcomer, s1, vote, k1),
                                   attestation_of(Newcomer, s2, vote, k2) >>)
            /\ \A vote \in Votes : submission_within_roster(OnePerMember(Newcomer, vote))

\* the newcomer's bundle holds as many witnesses as its meetup has other
\* members, and its list with one attestation more is rejected
C9_FullBundle ==
    /\ current_phase = "ATTESTING"
    /\ Len(roster_of(Newcomer)) = NumAccounts
    /\ Len(bundle_of(store, current_cc, Newcomer)) = NumAccounts - 1
    /\ attest(Newcomer, OnePerMember(Newcomer, NumAccounts)).res =
            "can't have more attestations than other meetup participants"

\* ----------------------------------------------------------------- C4, C5

\* the accounts registered for the current ceremony of cidA
registered_accounts ==
    { participant_registry(store, current_cc, p) : p \in 1 .. participant_count(store, current_cc) }

registered_reputables == { a \in registered_accounts : is_reputable(store, current_cc, "cidA", a) }
registered_newbies == registered_accounts \ registered_reputables

\* the meetups committed for the current ceremony of cidA
committed_meetups ==
    { store.MeetupRegistry[key] : key \in { k \in DOMAIN store.MeetupRegistry : k[1] = current_cc } }

\* the newbies that are members of a committed meetup
placed_newbies == { a \in registered_newbies : \E meetup \in committed_meetups : Contains(meetup, a) }

\* C4: with R registered reputables and W registered newbies, assign_meetups
\* places at most min(W, floor(R / 4)) newbies into committed meetups; 9
\* reputables and 3 newbies yield one committed meetup of 11 members, 2 of
\* them newbies.
C4_NewbiesAtMostAQuarterOfReputables ==
    current_phase = "ASSIGNING" =>
        /\ Cardinality(placed_newbies) <=
                Min(Cardinality(registered_newbies), Cardinality(registered_reputables) \div 4)
        /\ (Cardinality(registered_reputables) = 9 /\ Cardinality(registered_newbies) = 3) =>
                /\ Cardinality(committed_meetups) = 1
                /\ \A meetup \in committed_meetups : Len(meetup) = 11
                /\ Cardinality(placed_newbies) = 2

\* C5: every meetup stored in MeetupRegistry has at least 3 members, whatever
\* the numbers of registered reputables and newbies; assign_meetups does not
\* panic when it removes the candidates that are too small, of which there is
\* never more than one.
C5_StoredMeetupsHaveThreeMembers ==
    /\ \A key \in DOMAIN store.MeetupRegistry : Len(store.MeetupRegistry[key]) >= 3
    /\ current_phase = "REGISTERING" =>
            /\ ~ plan_meetups(store, current_ceremony_index, "cidA").panic
            /\ plan_meetups(store, current_ceremony_index, "cidA").n_meetups
                    - Len(plan_meetups(store, current_ceremony_index, "cidA").meetups) <= 1

\* several meetups are committed, newbies among their members
C5_SeveralMeetupsCommitted ==
    /\ current_phase = "ASSIGNING"
    /\ Cardinality(committed_meetups) >= 2
    /\ meetup_count(store, current_cc) = Cardinality(committed_meetups)
    /\ placed_newbies # {}

\* --------------------------------------------------------------------- C11

\* the ballot of meetup 1 of the current ceremony of cidA
ballot_now == ballot_meetup_n_votes(store, "cidA", current_ceremony_index, 1)

\* the position in the roster of meetup 1 of the first member that voted v
first_voter(v) ==
    CHOOSE i \in DOMAIN meetup_registry(store, current_cc, 1) :
        /\ meetup_participant_count_vote(store, current_cc, meetup_registry(store, current_cc, 1)[i]) = v
        /\ \A j \in 1 .. i - 1 :
                meetup_participant_count_vote(store, current_cc,
                                              meetup_registry(store, current_cc, 1)[j]) # v

\* C11, as the specification states it: when two or more headcounts tie for
\* the most votes of a meetup, the ballot's winning value is the tied value
\* that was encountered first when tallying the members in roster order.
C11_TieGoesToFirstEncountered ==
    (/\ current_phase = "ATTESTING"
     /\ ballot_now # None
     /\ Cardinality(winning_values(store, current_cc, 1)) >= 2) =>
        \A v \in winning_values(store, current_cc, 1) :
            first_voter(ballot_now[1][1]) <= first_voter(v)

\* C11, as the code has it: the ballot's winning value is one of the most
\* voted values, and when two or more tie it is the tied value that was
\* encountered last (whose first voter comes latest in roster order).
C11_TieGoesToLastEncountered ==
    (current_phase = "ATTESTING" /\ ballot_now # None) =>
        /\ ballot_now[1][1] \in winning_values(store, current_cc, 1)
        /\ ballot_now[1][2] = winning_count(store, current_cc, 1)
        /\ \A v \in winning_values(store, current_cc, 1) :
                first_voter(ballot_now[1][1]) >= first_voter(v)

\* two headcounts have three votes each, and the ballot has a winner
C11_TieAtQuorum ==
    /\ current_phase = "ATTESTING"
    /\ Cardinality(winning_values(store, current_cc, 1)) = 2
    /\ winning_count(store, current_cc, 1) = 3
    /\ ballot_now # None

\* --------------------------------------------------------------------- C12

\* the headcount votes of the members of meetup 1, in roster order
roster_votes ==
    [i \in DOMAIN meetup_registry(store, current_cc, 1) |->
        meetup_participant_count_vote(store, current_cc, meetup_registry(store, current_cc, 1)[i])]

\* C12: the reward ballot issues no reward to, and changes no reputation
\* entry of, a member whose own headcount vote differs from the winning value
\* of its meetup (a member without a vote included), whatever its bundle
\* holds; with the votes [5, 5, 5, 4, 4] the winner is 5 and the two voters
\* of 4 get nothing.
C12_OnlyWinningVotersRewarded ==
    current_phase = "ATTESTING" =>
        /\ \A ok_accounts \in LedgerChoices :
                LET after == reward_ballot(ok_accounts)
                IN  \A i \in DOMAIN roster_votes :
                        LET p == meetup_registry(store, current_cc, 1)[i]
                        IN  (ballot_now = None \/ roster_votes[i] # ballot_now[1][1]) =>
                                /\ \A r \in DOMAIN after.issued : after.issued[r].account # p
                                /\ \A k \in DOMAIN after.store.ParticipantReputation :
                                        k[2] = p =>
                                            /\ k \in DOMAIN store.ParticipantReputation
                                            /\ after.store.ParticipantReputation[k] =
                                                    store.ParticipantReputation[k]
        /\ roster_votes = << 5, 5, 5, 4, 4 >> =>
                /\ ballot_now = Some(<< 5, 3 >>)
                /\ \A r \in DOMAIN reward_ballot(1 .. MaxMeetupSize).issued :
                        reward_ballot(1 .. MaxMeetupSize).issued[r].account \in { 1, 2, 3 }

\* the votes are [5, 5, 5, 4, 4], every member holds the signatures of all
\* others, and the ballot rewards the three voters of 5 only
C12_ThreeOfFiveRewarded ==
    /\ current_phase = "ATTESTING"
    /\ roster_votes = << 5, 5, 5, 4, 4 >>
    /\ \A p \in 1 .. 5 : Cardinality(reciprocating_entries(store, current_cc, p)) = 4
    /\ { reward_ballot(1 .. MaxMeetupSize).issued[r].account :
            r \in DOMAIN reward_ballot(1 .. MaxMeetupSize).issued } = { 1, 2, 3 }

\* --------------------------------------------------------------------- C13

\* C13: the reward ballot changes a reputation entry only to set the entry
\* of a member for the concluded ceremony to VerifiedUnlinked, and only when
\* the ledger's issue call for that member succeeded; when issue fails the
\* member's entry stays as it was, and the ballot goes on: the members it
\* requests an issue for are the same whatever the ledger answers.
C13_ReputationOnlyOnLedgerSuccess ==
    current_phase = "ATTESTING" =>
        \A ok_accounts \in LedgerChoices :
            LET after == reward_ballot(ok_accounts)
                all == reward_ballot(1 .. MaxMeetupSize)
            IN  /\ \A k \in DOMAIN after.store.ParticipantReputation :
                        (\/ k \notin DOMAIN store.ParticipantReputation
                         \/ after.store.ParticipantReputation[k] # store.ParticipantReputation[k]) =>
                            /\ after.store.ParticipantReputation[k] = "VerifiedUnlinked"
                            /\ k[1] = current_cc
                            /\ \E r \in DOMAIN after.issued :
                                    after.issued[r].account = k[2] /\ after.issued[r].ok
                /\ DOMAIN store.ParticipantReputation \subseteq DOMAIN after.store.ParticipantReputation
                /\ \A r \in DOMAIN after.issued :
                        /\ after.issued[r].ok <=> after.issued[r].account \in ok_accounts
                        /\ reputation_of(after.store, << current_cc, after.issued[r].account >>) =
                                IF after.issued[r].ok THEN "VerifiedUnlinked"
                                ELSE reputation_of(store, << current_cc, after.issued[r].account >>)
                /\ Len(after.issued) = Len(all.issued)
                /\ \A r \in DOMAIN after.issued : after.issued[r].account = all.issued[r].account

\* the hook has run: the issue for account 1 failed and left its reputation
\* as it was, the issue for account 2, asked for after it, succeeded
C13_FailedThenSucceeded ==
    /\ current_phase = "REGISTERING"
    /\ current_ceremony_index = 2
    /\ \E i, j \in DOMAIN issued :
            /\ i < j
            /\ issued[i].account = 1 /\ ~ issued[i].ok
            /\ issued[j].account = 2 /\ issued[j].ok
    /\ reputation_of(store, << <<"cidA", 1>>, 1 >>) = "Unverified"
    /\ reputation_of(store, << <<"cidA", 1>>, 2 >>) = "VerifiedUnlinked"

\* --------------------------------------------------------------------- C14

\* C14: in every reachable state, whatever the phase, grant_reputation by an
\* account other than the ceremony master fails and changes nothing, and by
\* the ceremony master it succeeds, sets the reputation of the target for
\* (community, current ceremony index - 1) to VerifiedUnlinked and changes
\* nothing else.
C14_OnlyMasterGrantsPreviousCeremony ==
    \A sender \in Accounts, cid \in AllCids, reputable \in Accounts :
        LET call == grant_reputation(store, current_ceremony_index, sender, cid, reputable)
            target == << <<cid, current_ceremony_index - 1>>, reputable >>
        IN  IF sender # CeremonyMaster
            THEN call.res # "Ok" /\ call.store = store
            ELSE /\ call.res = "Ok"
                 /\ reputation_of(call.store, target) = "VerifiedUnlinked"
                 /\ call.store = [store EXCEPT !.ParticipantReputation =
                                    [k \in DOMAIN @ \cup { target } |->
                                        IF k = target THEN "VerifiedUnlinked" ELSE @[k]]]

\* the master granted during the second ceremony: no reward was ever issued,
\* yet the newcomer holds VerifiedUnlinked for ceremony 1, and that is the
\* only reputation entry there is
C14_GrantedInSecondCeremony ==
    /\ current_ceremony_index = 2
    /\ grants > 0
    /\ issued = << >>
    /\ reputation_of(store, << <<"cidA", 1>>, Newcomer >>) = "VerifiedUnlinked"
    /\ \A k \in DOMAIN store.ParticipantReputation :
            k = << <<"cidA", 1>>, Newcomer >>

\* --------------------------------------------------------------------- C15

\* C15: a register_attestations call that fails leaves the whole storage as
\* it was. The call fails outside ATTESTING, with an empty list, for a
\* community that is not registered, for a caller without a meetup in the
\* current ceremony, and with as many attestations as the meetup has members;
\* a list of which no attestation passes the filter fails too, whether or not
\* the caller already holds a bundle.
C15_FailedSubmissionChangesNothing ==
    \A sender \in Accounts \cup { DefaultAccount } :
        LET singles == { << attestation_of(sender, s1, vote, k1) >> :
                            s1 \in Accounts, vote \in Votes, k1 \in AttestationKinds }
            foreign == { << [a[1] EXCEPT !.claim.currency_identifier = UnknownCid] >> :
                            a \in singles }
            crowded == { OnePerMember(sender, vote) : vote \in Votes }
            rejected == { << attestation_of(sender, s1, vote, k1) >> :
                            s1 \in Accounts, vote \in Votes,
                            k1 \in { "self signed", "other signature" } }
        IN  /\ \A attestations \in singles \cup foreign \cup crowded \cup { << >> } :
                    LET call == attest(sender, attestations)
                    IN  /\ call.res # "Ok" => call.store = store
                        /\ (\/ current_phase # "ATTESTING"
                            \/ attestations = << >>
                            \/ attestations \in foreign \cup crowded
                            \/ meetup_index(store, current_cc, sender) = 0) => call.res # "Ok"
            /\ \A attestations \in rejected : attest(sender, attestations).res # "Ok"

\* the newcomer holds a bundle from an earlier submission, and a list with
\* one self signed attestation is refused with NoValidAttestations
C15_NothingValidAfterABundle ==
    /\ current_phase = "ATTESTING"
    /\ << current_cc, Newcomer >> \in DOMAIN store.AttestationIndex
    /\ attest(Newcomer, << attestation_of(Newcomer, 1, NumAccounts, "self signed") >>).res =
            "NoValidAttestations"

\* --------------------------------------------------------------------- C16

\* C16: in every ceremony the bundle indices handed out are exactly
\* 1 .. AttestationCount, one per account that holds one. A successful
\* register_attestations by an account without an index gives it index
\* AttestationCount + 1 and increments the count; by an account with an index
\* it keeps index and count; in both cases the witness list stored at the
\* index is the one of this submission alone, the vote is the submitted one,
\* and the indices of the other accounts stay (for the caller's claim signed
\* by any non-empty set of the caller's meetup peers).
C16_BundleIndexIsStable ==
    /\ \A cindex \in 1 .. MaxCeremonyIndex :
            LET cc == <<"cidA", cindex>>
                holders == { a \in Accounts : <<cc, a>> \in DOMAIN store.AttestationIndex }
            IN  /\ attestation_count(store, cc) = Cardinality(holders)
                /\ { attestation_index(store, cc, a) : a \in holders } =
                        1 .. attestation_count(store, cc)
                /\ \A a, b \in holders :
                        attestation_index(store, cc, a) = attestation_index(store, cc, b) => a = b
    /\ \A sender \in Accounts, vote \in Votes :
            \A witnesses \in (SUBSET (Range(roster_of(sender)) \ { sender })) \ { {} } :
                LET call == attest(sender, SignedBy(AscendingSeq(witnesses),
                                                   claim_of(sender, "cidA", vote)))
                    known == << current_cc, sender >> \in DOMAIN store.AttestationIndex
                    count == attestation_count(store, current_cc)
                    idx == attestation_index(call.store, current_cc, sender)
                    stored == Get(call.store.AttestationRegistry, << current_cc, idx >>, << >>)
                IN  call.res = "Ok" =>
                        /\ idx = IF known THEN attestation_index(store, current_cc, sender)
                                 ELSE count + 1
                        /\ attestation_count(call.store, current_cc) =
                                IF known THEN count ELSE count + 1
                        /\ Len(stored) = Cardinality(witnesses)
                        /\ Range(stored) = witnesses
                        /\ meetup_participant_count_vote(call.store, current_cc, sender) = vote
                        /\ \A other \in Accounts \ { sender } :
                                /\ attestation_index(call.store, current_cc, other) =
                                        attestation_index(store, current_cc, other)
                                /\ << current_cc, other >> \in DOMAIN call.store.AttestationIndex
                                        <=> << current_cc, other >> \in DOMAIN store.AttestationIndex

\* the newcomer holds the first of two bundles, with two witnesses and the
\* vote 3, and hands in one attestation with the vote 4: the call succeeds
C16_ResubmissionAfterAnotherBundle ==
    /\ current_phase = "ATTESTING"
    /\ attestation_count(store, current_cc) = 2
    /\ << current_cc, Newcomer >> \in DOMAIN store.AttestationIndex
    /\ attestation_index(store, current_cc, Newcomer) = 1
    /\ Len(Get(store.AttestationRegistry, << current_cc, 1 >>, << >>)) = 2
    /\ meetup_participant_count_vote(store, current_cc, Newcomer) = NumAccounts
    /\ attest(Newcomer, << attestation_of(Newcomer, 1, NumAccounts + 1, "good") >>).res = "Ok"

\* --------------------------------------------------------------------- C17

\* C17: with R reputables and W newbies registered, assign_meetups plans
\* floor(n / 12) + 1 meetups for n = R + min(W, floor(R / 4)); when it commits
\* any meetup, MeetupCount holds that number and that many meetups are stored,
\* and when it commits none MeetupCount is not written. 40 reputables and no
\* newbie give the meetups 1 .. 4 with 10 reputables each.
C17_MeetupCountIsQuotientPlusOne ==
    LET R == Cardinality(registered_reputables)
        W == Cardinality(registered_newbies)
        n == R + Min(W, R \div 4)
        keys == { k \in DOMAIN store.MeetupRegistry : k[1] = current_cc }
    IN  /\ current_phase = "REGISTERING" =>
                plan_meetups(store, current_ceremony_index, "cidA").n_meetups = n \div 12 + 1
        /\ current_phase = "ASSIGNING" =>
                /\ keys # {} =>
                        /\ current_cc \in DOMAIN store.MeetupCount
                        /\ store.MeetupCount[current_cc] = n \div 12 + 1
                        /\ keys = { << current_cc, i >> : i \in 1 .. (n \div 12 + 1) }
                /\ keys = {} => current_cc \notin DOMAIN store.MeetupCount
                /\ (R = 40 /\ W = 0) =>
                        /\ keys = { << current_cc, i >> : i \in 1 .. 4 }
                        /\ \A k \in keys :
                                /\ Len(store.MeetupRegistry[k]) = 10
                                /\ Range(store.MeetupRegistry[k]) \subseteq registered_reputables

\* 40 reputables and no newbie were registered, and MeetupCount is 4
C17_FortyReputablesFourMeetups ==
    /\ current_phase = "ASSIGNING"
    /\ Cardinality(registered_reputables) = 40
    /\ registered_newbies = {}
    /\ current_cc \in DOMAIN store.MeetupCount
    /\ store.MeetupCount[current_cc] = 4

\* --------------------------------------------------------------------- C18

\* C18, as the specification states it: when the hook of the REGISTERING
\* phase runs for the ceremony that ends, every member of a meetup whose
\* winning headcount value w has at least 3 votes, who voted w, whose bundle
\* holds at least w - 1 witnesses and of whose witnesses at least w - 1 have
\* the member in their own bundle, gets an issue request for that ceremony,
\* ends with the reputation VerifiedUnlinked when the ledger accepts it, and
\* the ceremony is purged afterwards.
C18_WinningValueWitnessesSuffice ==
    current_phase = "ATTESTING" =>
        \A ok_accounts \in LedgerChoices :
            LET hook == on_ceremony_phase_change(store, "REGISTERING",
                                                 current_ceremony_index + 1, ok_accounts)
            IN  \A p \in Range(meetup_registry(store, current_cc, 1)) :
                    (IF ballot_now = None THEN FALSE
                     ELSE LET w == ballot_now[1][1]
                              c == ballot_now[1][2]
                          IN  /\ c >= 3
                              /\ meetup_participant_count_vote(store, current_cc, p) = w
                              /\ Len(bundle_of(store, current_cc, p)) >= w - 1
                              /\ Cardinality(reciprocating_accounts(store, current_cc, p)) >= w - 1) =>
                        /\ \E i \in DOMAIN hook.issued :
                                /\ hook.issued[i].account = p
                                /\ hook.issued[i].cid = "cidA"
                                /\ hook.issued[i].cindex = current_ceremony_index
                                /\ hook.issued[i].ok =>
                                        reputation_of(hook.store, << current_cc, p >>) =
                                            "VerifiedUnlinked"
                        /\ ceremony_is_empty(hook.store, current_ceremony_index)

\* C18, as the code has it: the same with the thresholds c - 1, c being the
\* number of votes cast for the winning headcount value, and with the entries
\* of the bundle counted as stored.
C18_WinningCountWitnessesSuffice ==
    current_phase = "ATTESTING" =>
        \A ok_accounts \in LedgerChoices :
            LET hook == on_ceremony_phase_change(store, "REGISTERING",
                                                 current_ceremony_index + 1, ok_accounts)
            IN  \A p \in Range(meetup_registry(store, current_cc, 1)) :
                    (IF ballot_now = None THEN FALSE
                     ELSE LET w == ballot_now[1][1]
                              c == ballot_now[1][2]
                          IN  /\ c >= 3
                              /\ meetup_participant_count_vote(store, current_cc, p) = w
                              /\ Len(bundle_of(store, current_cc, p)) >= c - 1
                              /\ Cardinality(reciprocating_entries(store, current_cc, p)) >= c - 1) =>
                        /\ \E i \in DOMAIN hook.issued :
                                /\ hook.issued[i].account = p
                                /\ hook.issued[i].cid = "cidA"
                                /\ hook.issued[i].cindex = current_ceremony_index
                                /\ hook.issued[i].ok =>
                                        reputation_of(hook.store, << current_cc, p >>) =
                                            "VerifiedUnlinked"
                        /\ ceremony_is_empty(hook.store, current_ceremony_index)

\* the hook has run and purged the first ceremony: a single issue was asked
\* for, for account 2, and the ledger accepted it
C18_SingleMemberRewarded ==
    /\ current_phase = "REGISTERING"
    /\ current_ceremony_index = 2
    /\ Len(issued) = 1
    /\ issued[1].account = 2 /\ issued[1].ok /\ issued[1].cindex = 1
    /\ reputation_of(store, << <<"cidA", 1>>, 2 >>) = "VerifiedUnlinked"
    /\ ceremony_is_empty(store, 1)

\* --------------------------------------------------------------------- C19

\* C19: every account that a successful register_attestations stores in the
\* caller's bundle is the signer of a submitted attestation whose claim names
\* the caller as claimant (for every list of one or two attestations the
\* newcomer hands in); an attestation a peer signed for another claimant adds
\* no witness.
C19_WitnessesVouchedForCaller ==
    current_phase = "ATTESTING" =>
        \A vote \in Votes, s1 \in Accounts, k1 \in AttestationKinds :
            \A attestations \in
                    { << attestation_of(Newcomer, s1, vote, k1) >> } \cup
                    { << attestation_of(Newcomer, s1, vote, k1),
                         attestation_of(Newcomer, s2, vote, "good") >> : s2 \in Accounts } :
                attest(Newcomer, attestations).res = "Ok" =>
                    \A w \in Range(bundle_of(attest(Newcomer, attestations).store,
                                              current_cc, Newcomer)) :
                        \E i \in DOMAIN attestations :
                            /\ attestations[i].public = w
                            /\ attestations[i].claim.claimant_public = Newcomer

\* --------------------------------------------------------------------- C20

C21_PurgedCeremonyStaysEmpty ==
    [][ /\ \A cid \in AllCids, k \in 0 .. (MaxCeremonyIndex + 1) :
                k # current_ceremony_index =>
                    ceremony_state(store', <<cid, k>>) = ceremony_state(store, <<cid, k>>)
        /\ current_ceremony_index' >= current_ceremony_index
        /\ \A k \in 0 .. MaxCeremonyIndex :
                k < current_ceremony_index' => ceremony_is_empty(store', k)
        /\ current_ceremony_index = MaxCeremonyIndex =>
                LET assigned == assign_meetups(store, MaxCeremonyIndex).store
                IN  \A sender \in { a \in Accounts :
                                      meetup_index(assigned, <<"cidA", MaxCeremonyIndex>>, a) # 0 } :
                        LET attested_by == register_attestations(assigned, "ATTESTING",
                                MaxCeremonyIndex, sender,
                                SignedBy(AscendingSeq(Accounts \ { sender }),
                                         claim_in(assigned, MaxCeremonyIndex, sender,
                                                  "cidA", NumAccounts))).store
                        IN  \A cid \in AllCids, k \in 0 .. (MaxCeremonyIndex + 1) :
                                k # MaxCeremonyIndex =>
                                    ceremony_state(attested_by, <<cid, k>>) =
                                        ceremony_state(store, <<cid, k>>)
      ]_vars

\* the first ceremony was held, rewarded and purged, and accounts have
\* registered for the second one: the first one is still empty
C21_RegisteredAfterPurge ==
    /\ current_ceremony_index = 2
    /\ issued # << >>
    /\ participant_count(store, <<"cidA", 2>>) >= 2
    /\ ceremony_is_empty(store, 1)
    /\ <<"cidA", 1>> \in DOMAIN store.ParticipantCount

\* --------------------------------------------------------------------- C22

\* C22: for every community and ceremony index, MeetupCount is the number of
\* meetups stored in MeetupRegistry, these are stored at exactly the indices
\* 1 .. MeetupCount, and each has members; when assign_meetups has run and
\* no meetup survived, MeetupCount is 0 and neither a meetup nor a reverse
\* index entry is stored.
C22_MeetupCountMatchesRegistry ==
    \A cid \in KnownCids, k \in 0 .. MaxCeremonyIndex :
        LET cc == <<cid, k>>
            keys == { key \in DOMAIN store.MeetupRegistry : key[1] = cc }
        IN  /\ meetup_count(store, cc) = Cardinality(keys)
            /\ keys = { << cc, m >> : m \in 1 .. meetup_count(store, cc) }
            /\ \A key \in keys : store.MeetupRegistry[key] # << >>
            /\ keys = {} =>
                    /\ meetup_count(store, cc) = 0
                    /\ \A key \in DOMAIN store.MeetupIndex : key[1] # cc

\* three meetups were committed, newbies among their members, and the count
\* stored is 3
C22_ThreeMeetupsCounted ==
    /\ current_phase = "ASSIGNING"
    /\ meetup_count(store, current_cc) = 3
    /\ Cardinality(committed_meetups) = 3
    /\ placed_newbies # {}

\* --------------------------------------------------------------------- C23

\* C23: for every community and ceremony index, no account is a member of
\* two stored meetups or twice of one, every member of a stored meetup is a
\* registered participant of that ceremony, and the reverse index agrees
\* with the registry: MeetupIndex of an account is m >= 1 exactly when the
\* account is a member of meetup m, and it is 0 for the registered accounts
\* that are members of no meetup.
C23_MeetupIndexAgreesWithRegistry ==
    \A cid \in KnownCids, k \in 0 .. MaxCeremonyIndex :
        LET cc == <<cid, k>>
            keys == { key \in DOMAIN store.MeetupRegistry : key[1] = cc }
            participants == { participant_registry(store, cc, p) :
                                p \in 1 .. participant_count(store, cc) }
            members == UNION { Range(store.MeetupRegistry[key]) : key \in keys }
        IN  /\ \A k1, k2 \in keys :
                    k1 # k2 => Range(store.MeetupRegistry[k1]) \cap
                                    Range(store.MeetupRegistry[k2]) = {}
            /\ \A key \in keys :
                    Cardinality(Range(store.MeetupRegistry[key])) = Len(store.MeetupRegistry[key])
            /\ members \subseteq participants
            /\ \A key \in DOMAIN store.MeetupIndex :
                    key[1] = cc => key[2] \in members
            /\ \A a \in participants \cup members :
                    /\ \A key \in keys :
                            meetup_index(store, cc, a) = key[2]
                                <=> a \in Range(store.MeetupRegistry[key])
                    /\ a \notin members => meetup_index(store, cc, a) = 0
                    /\ a \in members => meetup_index(store, cc, a) >= 1

\* several meetups were committed and a registered newbie was left out: its
\* reverse index reads 0
C23_DroppedNewbieHasIndexZero ==
    /\ current_phase = "ASSIGNING"
    /\ Cardinality(committed_meetups) >= 2
    /\ \E a \in registered_newbies \ placed_newbies : meetup_index(store, current_cc, a) = 0
    /\ placed_newbies # {}

\* --------------------------------------------------------------------- C24

\* C24: in every reachable state the witness list of every attestation
\* bundle holds pairwise distinct accounts, and the reward ballot issues a
\* reward only to a member with at least c - 1 distinct witnesses that have
\* the member in their own bundle, c being the number of votes for the
\* winning headcount: a peer whose attestation is handed in several times
\* counts once.
C24_WitnessesPairwiseDistinct ==
    /\ \A key \in DOMAIN store.AttestationRegistry :
            Cardinality(Range(store.AttestationRegistry[key])) =
                Len(store.AttestationRegistry[key])
    /\ current_phase = "ATTESTING" =>
            \A i \in DOMAIN reward_ballot(Accounts).issued :
                LET r == reward_ballot(Accounts).issued[i]
                    cc == <<r.cid, r.cindex>>
                    c == winning_count(store, cc, meetup_index(store, cc, r.account))
                IN  Cardinality(reciprocating_accounts(store, cc, r.account)) >= c - 1

\* --------------------------------------------------------------------- C25

\* C25: the ledger's issue is requested at most once for a community, a
\* ceremony index and an account: the requests made so far are pairwise
\* different, the REGISTERING hook asks once per member at most, and the hook
\* invoked again for the same ceremony index, whatever the ledger answered
\* the first time, asks for nothing.
C25_IssueRequestedAtMostOnce ==
    /\ \A i, j \in DOMAIN issued :
            (/\ issued[i].cid = issued[j].cid
             /\ issued[i].cindex = issued[j].cindex
             /\ issued[i].account = issued[j].account) => i = j
    /\ current_phase = "ATTESTING" =>
            \A first \in LedgerChoices :
                LET hook == on_ceremony_phase_change(store, "REGISTERING",
                                                     current_ceremony_index + 1, first)
                IN  /\ \A i, j \in DOMAIN hook.issued :
                            hook.issued[i].account = hook.issued[j].account => i = j
                    /\ \A i \in DOMAIN hook.issued :
                            /\ hook.issued[i].cid = "cidA"
                            /\ hook.issued[i].cindex = current_ceremony_index
                    /\ \A again \in LedgerChoices :
                            on_ceremony_phase_change(hook.store, "REGISTERING",
                                current_ceremony_index + 1, again).issued = << >>
    /\ current_phase = "REGISTERING" =>
            \A again \in LedgerChoices :
                on_ceremony_phase_change(store, "REGISTERING",
                                         current_ceremony_index, again).issued = << >>

\* the hook has asked for an issue for five members or more, the ledger
\* refused one of them, and the hook invoked again would ask for nothing
C25_RefusedIssueNotRetried ==
    /\ current_phase = "REGISTERING"
    /\ current_ceremony_index = 2
    /\ Len(issued) >= 5
    /\ \E i \in DOMAIN issued :
            /\ ~ issued[i].ok
            /\ reputation_of(store, << <<issued[i].cid, issued[i].cindex>>, issued[i].account >>)
                    # "VerifiedUnlinked"
    /\ on_ceremony_phase_change(store, "REGISTERING", 2, 1 .. MaxMeetupSize).issued = << >>

====
